---- MODULE Spec2Model ----
(***************************************************************************)
(* A model of r2cli's profile registry, secret vault and profile resolver  *)
(* (config.ts) and of its request execution engine (s3.ts) as state        *)
(* machines: one action per command or exported operation, each run as a   *)
(* fresh process against the persisted registry file, the OS vault and the *)
(* filesystem.                                                             *)
(***************************************************************************)
EXTENDS Integers, Sequences, FiniteSets, TLC

VARIABLES
  registry,   \* the parsed profile table of r2.toml, in Object.entries order
  vault,      \* the OS vault: a set of [service, account, password]
  cmd,        \* the last invocation: the operation and its inputs
  events,     \* what the last invocation did, in order
  result,     \* the Result returned by the last resolver call
  exitCode,   \* the exit code of the last process
  env,        \* process.platform and process.env of the processes
  fs          \* the filesystem: what is at each path

vars == <<registry, vault, cmd, events, result, exitCode, env, fs>>

(***************************************************************************)
(* Bounds of the model and the inputs the commands are run with            *)
(***************************************************************************)
MaxSections == 2

HexAccount == "deadbeefdeadbeefdeadbeefdeadbeef"
Names == {"work", "home"}
Accounts == {HexAccount, "acme"}
KeyIds == {"k1", "k2"}
Secrets == {"s1", "s2"}

\* identifiers given to --account: profile names, account ids, and strings
\* that are neither (32 hex digits, 31 and 33 hex digits, a non-hex digit)
Identifiers ==
  Names \cup Accounts \cup
    { "0123456789abcdefABCDEF0123456789",
      "deadbeefdeadbeefdeadbeefdeadbee",
      "deadbeefdeadbeefdeadbeefdeadbeefd",
      "deadbeefdeadbeefdeadbeefdeadbeeg" }

\* the hosts a command runs on: what getos and fs.existsSync report, and
\* whether the sudo install command succeeds
Hosts ==
  { [os |-> "darwin", libsecret |-> FALSE, dist |-> "", installOk |-> FALSE],
    [os |-> "linux", libsecret |-> FALSE, dist |-> "Arch Linux", installOk |-> TRUE],
    [os |-> "linux", libsecret |-> FALSE, dist |-> "Fedora", installOk |-> FALSE],
    [os |-> "linux", libsecret |-> FALSE, dist |-> "Alpine Linux", installOk |-> FALSE] }

(***************************************************************************)
(* JavaScript values and strings                                           *)
(***************************************************************************)
Undefined == "<undefined>"
Null == "<null>"

\* `${v}` in a template string
ToStr(v) == IF v = Undefined THEN "undefined" ELSE v

\* obj[k]
Get(obj, k) == IF k \in DOMAIN obj THEN obj[k] ELSE Undefined

CharAt(s, i) == SubSeq(s, i, i)

StartsWith(s, p) == Len(s) >= Len(p) /\ SubSeq(s, 1, Len(p)) = p

EndsWith(s, suffix) ==
  Len(s) >= Len(suffix) /\ SubSeq(s, Len(s) - Len(suffix) + 1, Len(s)) = suffix

\* the first index >= from whose character is in stops, Len(s) + 1 when none
FirstIndex(s, from, stops) ==
  IF \E i \in from..Len(s) : CharAt(s, i) \in stops
    THEN CHOOSE i \in from..Len(s) :
           /\ CharAt(s, i) \in stops
           /\ \A j \in from..(i - 1) : CharAt(s, j) \notin stops
    ELSE Len(s) + 1

HexDigits ==
  { "0", "1", "2", "3", "4", "5", "6", "7", "8", "9",
    "a", "b", "c", "d", "e", "f", "A", "B", "C", "D", "E", "F" }

HexIdLen == 32

\* the pattern without its end anchor
MatchesAccountPatternUnanchored(s) ==
  Len(s) >= HexIdLen /\ \A i \in 1..HexIdLen : CharAt(s, i) \in HexDigits

\* accountOrProfile.match(/^[0-9A-Fa-f]{32}$/)
MatchesAccountPattern(s) ==
  Len(s) = HexIdLen /\ \A i \in 1..Len(s) : CharAt(s, i) \in HexDigits

R2Suffix == ".r2.cloudflarestorage.com"

\* `https://${account_id}.r2.cloudflarestorage.com`
Endpoint(account_id) == "https://" \o ToStr(account_id) \o R2Suffix

\* new URL(r2Url).hostname.split('.')[0]; new URL throws without a scheme.
\* (The hostnames used here are lower case, as URL makes them.)
UrlScheme(r2Url) ==
  IF StartsWith(r2Url, "https://") THEN "https://"
  ELSE IF StartsWith(r2Url, "http://") THEN "http://"
  ELSE Undefined

accountForR2URL(r2Url) ==
  IF UrlScheme(r2Url) = Undefined THEN [thrown |-> TRUE]
  ELSE LET start == Len(UrlScheme(r2Url)) + 1
           hostEnd == FirstIndex(r2Url, start, {"/", "?", "#", ":"})
           dot == FirstIndex(r2Url, start, {"."})
           stop == IF dot < hostEnd THEN dot ELSE hostEnd
       IN [thrown |-> FALSE, val |-> SubSeq(r2Url, start, stop - 1)]

(***************************************************************************)
(* The profile table: a sequence of [name, info], names unique             *)
(***************************************************************************)
HasKey(table, name) == \E i \in 1..Len(table) : table[i].name = name

Lookup(table, name) == table[CHOOSE i \in 1..Len(table) : table[i].name = name].info

KeysOf(table) == { table[i].name : i \in 1..Len(table) }

\* the table becoming the one entry that is assigned
AssignAlone(table, name, info) == <<[name |-> name, info |-> info]>>

\* table[name] = info: an existing key keeps its place, a new one is appended
Assign(table, name, info) ==
  IF HasKey(table, name)
    THEN [i \in 1..Len(table) |->
            IF table[i].name = name THEN [name |-> name, info |-> info] ELSE table[i]]
    ELSE Append(table, [name |-> name, info |-> info])

(***************************************************************************)
(* The OS vault (keytar)                                                   *)
(***************************************************************************)
getPassword(v, service, account) ==
  IF \E e \in v : e.service = service /\ e.account = account
    THEN (CHOOSE e \in v : e.service = service /\ e.account = account).password
    ELSE Null

setPassword(v, service, account, password) ==
  { e \in v : ~(e.service = service /\ e.account = account) }
    \cup { [service |-> service, account |-> account, password |-> password] }

\* the distribution's install command, <<>> for an unknown distribution
installCommand(dist) ==
  CASE dist = "Arch Linux" -> <<"pacman", "-S", "libsecret">>
    [] dist \in {"Ubuntu", "Debian GNU/Linux"} -> <<"pacman", "-S", "libsecret-1-dev">>
    [] dist = "Fedora" -> <<"yum", "install", "libsecret-devel">>
    [] OTHER -> <<>>

\* "Ok": the keytar module; "Err": Err(...); "Throw": execFileSync threw
loadKeytar(h) ==
  IF h.os = "linux" /\ ~h.libsecret
    THEN IF installCommand(h.dist) = <<>> THEN "Err"
         ELSE IF h.installOk THEN "Ok" ELSE "Throw"
    ELSE "Ok"

KeytarError == "libsecret required and not available"
NoCredentialsError == "No credentials found"

retrieveCreds(v, h, account_id, access_key_id) ==
  LET endpoint == Endpoint(account_id)
      keytar == loadKeytar(h)
      read == [type |-> "getPassword", service |-> endpoint, account |-> access_key_id]
      secret_access_key == getPassword(v, endpoint, access_key_id)
  IN  IF keytar = "Throw" THEN [status |-> "Throw", events |-> <<>>]
      ELSE IF keytar = "Err"
        THEN [status |-> "Err", error |-> KeytarError, events |-> <<>>]
      ELSE IF secret_access_key = Null
        THEN [status |-> "Err", error |-> NoCredentialsError, events |-> <<read>>]
      ELSE [status |-> "Ok", val |-> secret_access_key, events |-> <<read>>]

(***************************************************************************)
(* The registry path                                                       *)
(***************************************************************************)
ConfigFilePath == "/home/u/.config/cloudflare/r2.toml"

\* the outcome of CandidatePaths.createInitialConfig(), given whether one of
\* the candidate paths could be touched
createInitialConfig(touched) ==
  IF touched THEN [ok |-> TRUE, val |-> ConfigFilePath]
  ELSE [ok |-> FALSE, error |-> "Failed on all possible candidate paths"]

(***************************************************************************)
(* The filesystem                                                          *)
(***************************************************************************)
\* what is at a path: nothing, a directory or a file; writable is the
\* permission of this process on it
Absent == [kind |-> "absent"]
Dir(writable) == [kind |-> "dir", writable |-> writable]
File(content, writable) == [kind |-> "file", content |-> content, writable |-> writable]

NodeAt(f, p) == IF p \in DOMAIN f THEN f[p] ELSE Absent

Put(f, p, node) == [q \in DOMAIN f \cup {p} |-> IF q = p THEN node ELSE f[q]]

\* a value that counts as true in a condition: neither undefined nor ''
Truthy(v) == v # Undefined /\ v # ""

\* s.lastIndexOf(ch), 0 when ch does not occur
LastIndexOf(s, ch) ==
  LET hits == { i \in 1..Len(s) : CharAt(s, i) = ch }
  IN  IF hits = {} THEN 0 ELSE CHOOSE i \in hits : \A j \in hits : j <= i

\* path.dirname(p)
dirname(p) ==
  LET i == LastIndexOf(p, "/")
  IN  IF i = 0 THEN "." ELSE IF i = 1 THEN "/" ELSE SubSeq(p, 1, i - 1)

\* path.join(a, b) of a drive and a path
pathJoin(a, b) == IF StartsWith(b, "/") THEN a \o b ELSE a \o "/" \o b

NoError == [ok |-> TRUE]
ErrnoException(code) == [code |-> code]

\* why an entry cannot be created in the directory dir, NoError when it can
CreateIn(f, dir) ==
  LET parent == NodeAt(f, dir)
  IN  IF parent.kind = "absent" THEN ErrnoException("ENOENT")
      ELSE IF parent.kind = "file" THEN ErrnoException("ENOTDIR")
      ELSE IF ~parent.writable THEN ErrnoException("EACCES")
      ELSE NoError

\* fs.mkdir(dir), not recursive
mkdir(f, dir) ==
  IF NodeAt(f, dir).kind # "absent"
    THEN [err |-> ErrnoException("EEXIST"), fs |-> f]
  ELSE IF CreateIn(f, dirname(dir)) # NoError
    THEN [err |-> CreateIn(f, dirname(dir)), fs |-> f]
  ELSE [err |-> NoError, fs |-> Put(f, dir, Dir(TRUE))]

\* fs.open(p, 'a') then fs.close: an existing file keeps its content, a
\* missing one is created empty
touchPath(f, p) ==
  LET node == NodeAt(f, p)
  IN  IF node.kind = "dir" THEN [err |-> ErrnoException("EISDIR"), fs |-> f]
      ELSE IF node.kind = "file"
        THEN IF node.writable THEN [err |-> NoError, fs |-> f]
             ELSE [err |-> ErrnoException("EACCES"), fs |-> f]
      ELSE IF CreateIn(f, dirname(p)) # NoError
        THEN [err |-> CreateIn(f, dirname(p)), fs |-> f]
      ELSE [err |-> NoError, fs |-> Put(f, p, File("", TRUE))]

\* fs.writeFile(p, contents): the file is replaced by contents
writeTextFile(f, p, contents) ==
  LET node == NodeAt(f, p)
  IN  IF node.kind = "dir" THEN [err |-> ErrnoException("EISDIR"), fs |-> f]
      ELSE IF node.kind = "file"
        THEN IF node.writable
               THEN [err |-> NoError, fs |-> Put(f, p, File(contents, TRUE))]
               ELSE [err |-> ErrnoException("EACCES"), fs |-> f]
      ELSE IF CreateIn(f, dirname(p)) # NoError
        THEN [err |-> CreateIn(f, dirname(p)), fs |-> f]
      ELSE [err |-> NoError, fs |-> Put(f, p, File(contents, TRUE))]

(***************************************************************************)
(* The candidate paths of the registry                                     *)
(***************************************************************************)
\* new CandidatePaths(projectFolder, configName) in the environment e
CandidatePaths(projectFolder, configName, e) ==
  LET home == IF Truthy(e.HOME) THEN e.HOME
              ELSE IF Truthy(e.USERPROFILE) THEN e.USERPROFILE
              ELSE IF Truthy(e.HOMEDRIVE) /\ Truthy(e.HOMEPATH)
                THEN pathJoin(e.HOMEDRIVE, e.HOMEPATH)
              ELSE Undefined
  IN  [projectFolder |-> projectFolder,
       local |-> configName,
       winAppDataPath |->
         IF e.platform = "win32" /\ Truthy(e.APPDATA)
           THEN e.APPDATA \o "/" \o projectFolder \o "/" \o configName
           ELSE Undefined,
       xdgConfigPath |->
         IF Truthy(e.XDG_CONFIG_HOME)
           THEN e.XDG_CONFIG_HOME \o "/" \o projectFolder \o "/" \o configName
           ELSE Undefined,
       homePaths |->
         IF home # Undefined
           THEN << home \o "/.config/" \o projectFolder \o "/" \o configName,
                   home \o "/." \o configName >>
           ELSE <<>>]

\* array[i] of JavaScript for the 0-based index i
At(array, i) == IF i + 1 \in DOMAIN array THEN array[i + 1] ELSE Undefined

Warn(text, p, e) == [type |-> "warn", text |-> text, path |-> p, error |-> e]

\* giving up on a candidate whenever mkdir fails, its directory existing or not
SkipCandidateOnAnyCode(e) == "code" \in DOMAIN e

\* a failed mkdir gives up on the candidate unless the directory exists
SkipCandidate(e) == "code" \in DOMAIN e /\ e.code # "EEXIST"

\* the for loop of createInitialConfig from candidatePaths[i] on
RECURSIVE tryCandidates(_, _, _)
tryCandidates(candidatePaths, i, f) ==
  IF i > Len(candidatePaths) THEN [found |-> FALSE, fs |-> f, events |-> <<>>]
  ELSE
    LET p == candidatePaths[i] IN
    IF p = Undefined THEN tryCandidates(candidatePaths, i + 1, f)
    ELSE
      LET parentDir == dirname(p)
          made == mkdir(f, parentDir)
          touched == touchPath(made.fs, p)
          skip == IF made.err # NoError /\ SkipCandidate(made.err)
                    THEN <<Warn("Trouble creating path", parentDir, made.err)>>
                  ELSE IF touched.err # NoError
                    THEN <<Warn("Trouble touching config path", p, touched.err)>>
                  ELSE <<>>
          rest == tryCandidates(candidatePaths, i + 1, made.fs)
      IN  IF skip # <<>> THEN [rest EXCEPT !.events = skip \o @]
          ELSE [found |-> TRUE, val |-> p, fs |-> touched.fs, events |-> <<>>]

AllFailedError == "Failed on all possible candidate paths"

\* paths.createInitialConfig() on the filesystem f
CandidatePaths_createInitialConfig(paths, platform, f) ==
  IF paths.projectFolder # "cloudflare"
    THEN [status |-> "Throw", fs |-> f, events |-> <<>>]
  ELSE
    LET candidatePaths ==
          IF platform = "win32"
            THEN <<paths.winAppDataPath, At(paths.homePaths, 0)>>
            ELSE <<paths.xdgConfigPath, At(paths.homePaths, 0)>>
        walk == tryCandidates(candidatePaths, 1, f)
        p == At(paths.homePaths, 1)
        last == touchPath(walk.fs, p)
    IN  IF walk.found
          THEN [status |-> "Ok", val |-> walk.val, fs |-> walk.fs, events |-> walk.events]
        ELSE IF Truthy(p) /\ last.err = NoError
          THEN [status |-> "Ok", val |-> p, fs |-> last.fs, events |-> walk.events]
        ELSE IF Truthy(p)
          THEN [status |-> "Err", error |-> AllFailedError, fs |-> walk.fs,
                events |-> walk.events
                             \o <<Warn("Trouble touching config path", p, last.err)>>]
        ELSE [status |-> "Err", error |-> AllFailedError, fs |-> walk.fs,
              events |-> walk.events]

(***************************************************************************)
(* The machines the registry path is looked for on                         *)
(***************************************************************************)
RegistryText == "[work]"

LinuxEnvs ==
  { [platform |-> "linux", APPDATA |-> Undefined, XDG_CONFIG_HOME |-> xdg,
     HOME |-> home, USERPROFILE |-> Undefined,
     HOMEDRIVE |-> Undefined, HOMEPATH |-> Undefined] :
      xdg \in {Undefined, "", "/xdg", "/home/u/.config", "/home/u/.config/cloudflare"},
      home \in {Undefined, "/home/u"} }

WindowsEnvs ==
  { [platform |-> "win32", APPDATA |-> appdata, XDG_CONFIG_HOME |-> xdg,
     HOME |-> Undefined, USERPROFILE |-> profile,
     HOMEDRIVE |-> drive[1], HOMEPATH |-> drive[2]] :
      appdata \in {Undefined, "C:/Users/u/AppData/Roaming"},
      xdg \in {Undefined, "/xdg"},
      profile \in {Undefined, "", "C:/Users/u"},
      drive \in {<<Undefined, Undefined>>, <<"C:", "/Users/u">>} }

\* node when the directory above it exists, nothing otherwise
Under(parent, node) == IF parent.kind = "dir" THEN node ELSE Absent

DirStates == {Absent, Dir(TRUE), Dir(FALSE)}
RegistryFileStates ==
  {Absent, File("", TRUE), File(RegistryText, TRUE), File(RegistryText, FALSE)}

\* a home directory with its .config tree and ~/.r2.toml, and an XDG directory
LinuxTree(home, dotConfig, projectDir, registryFile, lastResort, xdg) ==
  LET config == Under(home, dotConfig)
      project == Under(config, projectDir)
  IN  [p \in {"/", "/xdg", "/home/u", "/home/u/.config", "/home/u/.config/cloudflare",
              "/home/u/.config/cloudflare/r2.toml", "/home/u/.r2.toml"} |->
         CASE p = "/" -> Dir(FALSE)
           [] p = "/xdg" -> xdg
           [] p = "/home/u" -> home
           [] p = "/home/u/.config" -> config
           [] p = "/home/u/.config/cloudflare" -> project
           [] p = "/home/u/.config/cloudflare/r2.toml" -> Under(project, registryFile)
           [] p = "/home/u/.r2.toml" -> Under(home, lastResort)]

LinuxFilesystems ==
  { LinuxTree(home, dotConfig, projectDir, registryFile, lastResort, xdg) :
      home \in {Dir(TRUE), Dir(FALSE)}, dotConfig \in DirStates,
      projectDir \in DirStates, registryFile \in RegistryFileStates,
      lastResort \in {Absent, File(RegistryText, TRUE), File(RegistryText, FALSE)},
      xdg \in {Absent, Dir(TRUE)} }

\* a user profile with its AppData\Roaming directory
WindowsTree(appData, projectDir, registryFile, dotConfig, lastResort) ==
  LET project == Under(appData, projectDir)
  IN  [p \in {"C:/Users/u", "C:/Users/u/AppData/Roaming",
              "C:/Users/u/AppData/Roaming/cloudflare",
              "C:/Users/u/AppData/Roaming/cloudflare/r2.toml",
              "C:/Users/u/.config", "C:/Users/u/.r2.toml", "/"} |->
         CASE p = "C:/Users/u" -> Dir(TRUE)
           [] p = "C:/Users/u/AppData/Roaming" -> appData
           [] p = "C:/Users/u/AppData/Roaming/cloudflare" -> project
           [] p = "C:/Users/u/AppData/Roaming/cloudflare/r2.toml" ->
                Under(project, registryFile)
           [] p = "C:/Users/u/.config" -> dotConfig
           [] p = "C:/Users/u/.r2.toml" -> lastResort
           [] p = "/" -> Dir(FALSE)]

WindowsFilesystems ==
  { WindowsTree(appData, projectDir, registryFile, dotConfig, lastResort) :
      appData \in DirStates, projectDir \in {Absent, Dir(TRUE)},
      registryFile \in RegistryFileStates, dotConfig \in {Absent, Dir(TRUE)},
      lastResort \in {Absent, File(RegistryText, FALSE)} }

\* a machine: an environment with a filesystem of its platform
Machines == (LinuxEnvs \X LinuxFilesystems) \cup (WindowsEnvs \X WindowsFilesystems)

\* the machine of the commands of the registry and the vault: HOME is set
\* and ~/.config/cloudflare exists
DefaultEnv ==
  [platform |-> "linux", APPDATA |-> Undefined, XDG_CONFIG_HOME |-> Undefined,
   HOME |-> "/home/u", USERPROFILE |-> Undefined,
   HOMEDRIVE |-> Undefined, HOMEPATH |-> Undefined]

DefaultFs == LinuxTree(Dir(TRUE), Dir(TRUE), Dir(TRUE), Absent, Absent, Absent)

(***************************************************************************)
(* The profile resolver                                                    *)
(***************************************************************************)
NotFoundError(accountOrProfile, configFilePath) ==
  LET type == IF MatchesAccountPattern(accountOrProfile) THEN "Account" ELSE "Profile"
  IN  type \o " '" \o accountOrProfile \o "' not found in " \o configFilePath

\* returning the failure of the first matching profile instead of continuing
SkipMissingReturn(secretAccessKey, warn, rest) ==
  [status |-> "Err", error |-> secretAccessKey.error,
   events |-> secretAccessKey.events \o <<warn>>]

\* a matching profile whose secret is missing: warn and continue the loop
SkipMissing(secretAccessKey, warn, rest) ==
  [rest EXCEPT !.events = secretAccessKey.events \o <<warn>> \o @]

\* the for loop of retrieveConfig from entry i on; "None" when it falls through
RECURSIVE scanAccounts(_, _, _, _, _)
scanAccounts(existingConfig, i, accountOrProfile, v, h) ==
  IF i > Len(existingConfig) THEN [status |-> "None", events |-> <<>>]
  ELSE
    LET profile == existingConfig[i].name
        info == existingConfig[i].info
    IN  IF Get(info, "account") = accountOrProfile
          THEN LET secretAccessKey ==
                     retrieveCreds(v, h, Get(info, "account"), Get(info, "access_key_id"))
                   rest == scanAccounts(existingConfig, i + 1, accountOrProfile, v, h)
                   warn == [type |-> "warn", profile |-> profile]
               IN  IF secretAccessKey.status = "Throw" THEN secretAccessKey
                   ELSE IF secretAccessKey.status = "Err"
                     THEN SkipMissing(secretAccessKey, warn, rest)
                   ELSE [status |-> "Ok",
                         val |-> [profile |-> accountOrProfile,
                                  account_id |-> Get(info, "account"),
                                  access_key_id |-> Get(info, "access_key_id"),
                                  secret_access_key |-> secretAccessKey.val],
                         events |-> secretAccessKey.events]
          ELSE scanAccounts(existingConfig, i + 1, accountOrProfile, v, h)

\* the scan of the account ids done first, the profile name used after it
retrieveConfigScanFirst(existingConfig, v, h, accountOrProfile, configFilePath) ==
  LET scan == scanAccounts(existingConfig, 1, accountOrProfile, v, h)
      info == Lookup(existingConfig, accountOrProfile)
      secretAccessKey ==
        retrieveCreds(v, h, Get(info, "account"), Get(info, "access_key_id"))
  IN  IF scan.status # "None" THEN scan
      ELSE IF ~HasKey(existingConfig, accountOrProfile)
        THEN [status |-> "Err",
              error |-> NotFoundError(accountOrProfile, configFilePath),
              events |-> scan.events]
      ELSE IF secretAccessKey.status # "Ok" THEN secretAccessKey
      ELSE [status |-> "Ok",
            val |-> [profile |-> accountOrProfile,
                     account_id |-> Get(info, "account"),
                     access_key_id |-> Get(info, "access_key_id"),
                     secret_access_key |-> secretAccessKey.val],
            events |-> secretAccessKey.events]

retrieveConfig(existingConfig, v, h, accountOrProfile, configFilePath) ==
  IF HasKey(existingConfig, accountOrProfile)
    THEN LET info == Lookup(existingConfig, accountOrProfile)
             account_id == Get(info, "account")
             access_key_id == Get(info, "access_key_id")
             secretAccessKey == retrieveCreds(v, h, account_id, access_key_id)
         IN  IF secretAccessKey.status # "Ok" THEN secretAccessKey
             ELSE [status |-> "Ok",
                   val |-> [profile |-> accountOrProfile,
                            account_id |-> account_id,
                            access_key_id |-> access_key_id,
                            secret_access_key |-> secretAccessKey.val],
                   events |-> secretAccessKey.events]
    ELSE LET scan == scanAccounts(existingConfig, 1, accountOrProfile, v, h)
         IN  IF scan.status # "None" THEN scan
             ELSE [status |-> "Err",
                   error |-> NotFoundError(accountOrProfile, configFilePath),
                   events |-> scan.events]

\* choices of the profile prompt, and choices.indexOf(selected)
Choices(configs) ==
  [i \in 1..Len(configs) |->
     ToStr(Get(configs[i].info, "account")) \o ": " \o configs[i].name]

IndexOf(seq, x) ==
  CHOOSE i \in 1..Len(seq) : seq[i] = x /\ \A j \in 1..(i - 1) : seq[j] # x

\* prompting only from the third profile on
NeedsPromptAboveTwo(configs) == Len(configs) > 2

\* configs.length === 1 uses the only profile, anything else prompts
NeedsPrompt(configs) == Len(configs) # 1

\* pick: the index of the choice the user selects when prompted
retrieveOnlyConfig(existingConfig, v, h, pick, configFilePath) ==
  LET configs == existingConfig IN
  IF Len(configs) = 0
    THEN [status |-> "Err", error |-> "No profiles found in " \o configFilePath,
          events |-> <<>>]
  ELSE
    LET prompted == NeedsPrompt(configs)
        choices == Choices(configs)
        configIdx == IF prompted THEN IndexOf(choices, choices[pick]) ELSE 1
        asked == IF prompted THEN <<[type |-> "prompt", name |-> "choice"]>> ELSE <<>>
        profile == configs[configIdx].name
        info == configs[configIdx].info
        secretAccessKey ==
          retrieveCreds(v, h, Get(info, "account"), Get(info, "access_key_id"))
    IN  IF secretAccessKey.status = "Throw"
          THEN [secretAccessKey EXCEPT !.events = asked \o @]
        ELSE IF secretAccessKey.status = "Err"
          THEN [status |-> "Err", error |-> "",
                events |-> asked \o secretAccessKey.events
                             \o <<[type |-> "warn", profile |-> profile]>>]
        ELSE [status |-> "Ok",
              val |-> [profile |-> profile,
                       account_id |-> Get(info, "account"),
                       access_key_id |-> Get(info, "access_key_id"),
                       secret_access_key |-> secretAccessKey.val],
              events |-> asked \o secretAccessKey.events]

(***************************************************************************)
(* Storing a credential                                                    *)
(***************************************************************************)
\* the tokens the storage service accepts: each access key id has one secret
RemoteTokens ==
  { [account_id |-> a, access_key_id |-> t[1], secret_access_key |-> t[2]] :
      a \in Accounts, t \in { <<"k1", "s1">>, <<"k2", "s2">> } }

\* whether s3.listBuckets({}) succeeds with this credential
listBuckets(config) == config \in RemoteTokens

\* storing the secret before the validation call
saveCredsStoreFirst(v, h, config) ==
  LET endpoint == Endpoint(config.account_id)
      valid == listBuckets(config)
  IN  [outcome |-> IF valid THEN "returned" ELSE "exit",
       vault |-> setPassword(v, endpoint, config.access_key_id,
                             config.secret_access_key),
       exitCode |-> IF valid THEN 0 ELSE 1,
       events |-> << [type |-> "setPassword", service |-> endpoint,
                      account |-> config.access_key_id,
                      password |-> config.secret_access_key],
                     [type |-> "listBuckets", endpoint |-> endpoint,
                      accessKeyId |-> config.access_key_id,
                      secretAccessKey |-> config.secret_access_key,
                      ok |-> valid] >>]

\* a failed validation that sets process.exitCode and returns instead of
\* ending the process
saveCredsNoExit(v, h, config) ==
  LET endpoint == Endpoint(config.account_id)
      valid == listBuckets(config)
      stored == valid /\ loadKeytar(h) = "Ok"
      validation == [type |-> "listBuckets", endpoint |-> endpoint,
                     accessKeyId |-> config.access_key_id,
                     secretAccessKey |-> config.secret_access_key, ok |-> valid]
      write == [type |-> "setPassword", service |-> endpoint,
                account |-> config.access_key_id,
                password |-> config.secret_access_key]
  IN  [outcome |-> IF valid /\ loadKeytar(h) = "Throw" THEN "throw" ELSE "returned",
       vault |-> IF stored
                   THEN setPassword(v, endpoint, config.access_key_id,
                                    config.secret_access_key)
                   ELSE v,
       exitCode |-> IF stored THEN 0 ELSE 1,
       events |-> IF stored THEN <<validation, write>> ELSE <<validation>>]

\* outcome "exit": process.exit(1); "throw": an exception left saveCreds;
\* "returned": saveCreds returned (exitCode 1 when it set process.exitCode)
saveCreds(v, h, config) ==
  LET endpoint == Endpoint(config.account_id)
      valid == listBuckets(config)
      validation == [type |-> "listBuckets", endpoint |-> endpoint,
                     accessKeyId |-> config.access_key_id,
                     secretAccessKey |-> config.secret_access_key, ok |-> valid]
      keytar == loadKeytar(h)
      write == [type |-> "setPassword", service |-> endpoint,
                account |-> config.access_key_id,
                password |-> config.secret_access_key]
  IN  IF ~valid
        THEN [outcome |-> "exit", vault |-> v, exitCode |-> 1,
              events |-> <<validation>>]
      ELSE IF keytar = "Throw"
        THEN [outcome |-> "throw", vault |-> v, exitCode |-> 1,
              events |-> <<validation>>]
      ELSE IF keytar = "Err"
        THEN [outcome |-> "returned", vault |-> v, exitCode |-> 1,
              events |-> <<validation>>]
      ELSE [outcome |-> "returned",
            vault |-> setPassword(v, endpoint, config.access_key_id,
                                  config.secret_access_key),
            exitCode |-> 0,
            events |-> <<validation, write>>]

WriteEvent(configFilePath, table) ==
  [type |-> "writeTextFile", path |-> configFilePath, contents |-> table]

Info(text) == [type |-> "info", text |-> text]

Thrown == [type |-> "throw"]

(***************************************************************************)
(* config add                                                              *)
(***************************************************************************)
\* existingConfig[name] = { account: account_id, access_key_id: access_key_id }
AddedEntry(account_id, access_key_id) ==
  [account |-> account_id, access_key_id |-> access_key_id]

\* argv: the name and account arguments; answers: what the user types at
\* the two prompts
initConfig(existingConfig, v, argv, answers, h, touched) ==
  LET name == argv.name
      account_id == argv.account
      access_key_id == answers.access_key_id
      secret_access_key == answers.secret_access_key
      asked == <<[type |-> "prompt", name |-> "credentials"]>>
      configFilePath == createInitialConfig(touched)
      saved == saveCreds(v, h, [account_id |-> account_id,
                                access_key_id |-> access_key_id,
                                secret_access_key |-> secret_access_key])
      newConfig == Assign(existingConfig, name, AddedEntry(account_id, access_key_id))
  IN  IF ~configFilePath.ok
        THEN [registry |-> existingConfig, vault |-> v, exitCode |-> 1,
              events |-> asked \o <<Thrown>>]
      ELSE IF saved.outcome = "exit"
        THEN [registry |-> existingConfig, vault |-> saved.vault, exitCode |-> 1,
              events |-> asked \o saved.events]
      ELSE IF saved.outcome = "throw"
        THEN [registry |-> existingConfig, vault |-> saved.vault, exitCode |-> 1,
              events |-> asked \o saved.events \o <<Thrown>>]
      ELSE [registry |-> newConfig, vault |-> saved.vault,
            exitCode |-> saved.exitCode,
            events |-> asked \o saved.events
                         \o <<WriteEvent(configFilePath.val, newConfig),
                              Info("Added configuration " \o name \o " to "
                                     \o configFilePath.val)>>]

(***************************************************************************)
(* config import                                                           *)
(***************************************************************************)
\* the sections an rclone.conf may hold
SectionPool ==
  { [name |-> "work",
     section |-> [type |-> "s3",
                  endpoint |-> "https://deadbeefdeadbeefdeadbeefdeadbeef.r2.cloudflarestorage.com",
                  access_key_id |-> "k1", secret_access_key |-> "s1"]],
    [name |-> "home",
     section |-> [type |-> "s3",
                  endpoint |-> "https://acme.r2.cloudflarestorage.com",
                  access_key_id |-> "k2", secret_access_key |-> "s2"]],
    [name |-> "stale",
     section |-> [type |-> "s3",
                  endpoint |-> "https://acme.r2.cloudflarestorage.com",
                  access_key_id |-> "k1", secret_access_key |-> "s2"]],
    [name |-> "mirror",
     section |-> [type |-> "s3",
                  endpoint |-> "https://acme.r2.cloudflarestorage.com.mirror.example",
                  access_key_id |-> "k2", secret_access_key |-> "s2"]],
    [name |-> "gdrive",
     section |-> [type |-> "drive"]] }

NoDuplicates(seq) == \A i, j \in 1..Len(seq) : i # j => seq[i].name # seq[j].name

\* parsed rclone.conf files of at most MaxSections sections
RcloneConfigs ==
  UNION { { c \in [1..n -> SectionPool] : NoDuplicates(c) } : n \in 0..MaxSections }

\* what the import command finds: the --rclone flag, whether an rclone.conf
\* exists, whether it could be read and parsed, and its sections
ImportInputs ==
  { [rclone |-> FALSE, found |-> FALSE, parsed |-> FALSE, config |-> <<>>],
    [rclone |-> TRUE, found |-> FALSE, parsed |-> FALSE, config |-> <<>>],
    [rclone |-> TRUE, found |-> TRUE, parsed |-> FALSE, config |-> <<>>] }
    \cup { [rclone |-> TRUE, found |-> TRUE, parsed |-> TRUE, config |-> c] :
             c \in RcloneConfigs }

\* taking every section that has an endpoint
IsR2ProfileAnyEndpoint(profile) == Get(profile, "endpoint") # Undefined

\* profile['endpoint'].endsWith('.r2.cloudflarestorage.com')
IsR2Profile(profile) == EndsWith(Get(profile, "endpoint"), R2Suffix)

\* the filter loop throws a TypeError on a section without an endpoint
FilterThrows(rcloneConfig) ==
  \E i \in 1..Len(rcloneConfig) : Get(rcloneConfig[i].section, "endpoint") = Undefined

R2Profiles(rcloneConfig) == SelectSeq(rcloneConfig, LAMBDA e : IsR2Profile(e.section))

\* storing the whole source section
ImportedEntryWholeSection(account, details) ==
  [account_id |-> account, access_key_id |-> Get(details, "access_key_id"),
   secret_access_key |-> Get(details, "secret_access_key")]

\* existingConfig[name] = { account_id: accountForR2URL(...), access_key_id: ... }
ImportedEntry(account, details) ==
  [account_id |-> account, access_key_id |-> Get(details, "access_key_id")]

\* the for loop over r2Profiles from entry i on
RECURSIVE importLoop(_, _, _, _, _)
importLoop(r2Profiles, i, existingConfig, v, h) ==
  IF i > Len(r2Profiles)
    THEN [outcome |-> "done", config |-> existingConfig, vault |-> v,
          exitCode |-> 0, events |-> <<>>]
  ELSE
    LET name == r2Profiles[i].name
        details == r2Profiles[i].section
        account == accountForR2URL(details.endpoint)
        importing == Info("Importing RClone configuration " \o name)
        saved == saveCreds(v, h, [account_id |-> account.val,
                                  access_key_id |-> Get(details, "access_key_id"),
                                  secret_access_key |-> Get(details, "secret_access_key")])
        rest == importLoop(r2Profiles, i + 1,
                           Assign(existingConfig, name,
                                  ImportedEntry(account.val, details)),
                           saved.vault, h)
    IN  IF account.thrown
          THEN [outcome |-> "throw", config |-> existingConfig, vault |-> v,
                exitCode |-> 1, events |-> <<importing, Thrown>>]
        ELSE IF saved.outcome = "exit"
          THEN [outcome |-> "exit", config |-> existingConfig, vault |-> saved.vault,
                exitCode |-> 1, events |-> <<importing>> \o saved.events]
        ELSE IF saved.outcome = "throw"
          THEN [outcome |-> "throw", config |-> existingConfig, vault |-> saved.vault,
                exitCode |-> 1, events |-> <<importing>> \o saved.events \o <<Thrown>>]
        ELSE [rest EXCEPT !.events = <<importing>> \o saved.events \o @,
                          !.exitCode = IF saved.exitCode = 1 THEN 1 ELSE @]

ErrorEvent(text) == [type |-> "error", text |-> text]

importConfig(existingConfig, v, in, h, touched) ==
  LET configFilePath == createInitialConfig(touched)
      unchanged(code, evs) ==
        [registry |-> existingConfig, vault |-> v, exitCode |-> code, events |-> evs]
      r2Profiles == R2Profiles(in.config)
      numConfigurationsImported == Len(r2Profiles)
      loop == importLoop(r2Profiles, 1, existingConfig, v, h)
  IN  IF ~configFilePath.ok THEN unchanged(1, <<Thrown>>)
      ELSE IF ~in.rclone
        THEN unchanged(1, <<ErrorEvent("No import source provided")>>)
      ELSE IF ~in.found
        THEN unchanged(1, <<ErrorEvent("No existing rclone configuration found")>>)
      ELSE IF ~in.parsed
        THEN unchanged(1, <<ErrorEvent("Trouble parsing rclone config file")>>)
      ELSE IF FilterThrows(in.config) THEN unchanged(1, <<Thrown>>)
      ELSE IF Len(r2Profiles) = 0
        THEN unchanged(1, <<ErrorEvent("No Cloudflare R2 profiles found")>>)
      ELSE IF loop.outcome # "done"
        THEN [registry |-> existingConfig, vault |-> loop.vault,
              exitCode |-> 1, events |-> loop.events]
      ELSE [registry |-> loop.config, vault |-> loop.vault,
            exitCode |-> loop.exitCode,
            events |-> loop.events
                         \o <<WriteEvent(configFilePath.val, loop.config),
                              Info("Imported " \o ToString(numConfigurationsImported)
                                     \o " rclone configurations into "
                                     \o configFilePath.val)>>]

(***************************************************************************)
(* config list                                                             *)
(***************************************************************************)
listConfigs(existingConfig, touched) ==
  LET configFilePath == createInitialConfig(touched)
  IN  IF ~configFilePath.ok THEN [exitCode |-> 1, events |-> <<Thrown>>]
      ELSE [exitCode |-> 0,
            events |-> <<[type |-> "log", contents |-> existingConfig]>>]

(***************************************************************************)
(* The state machine                                                       *)
(***************************************************************************)
NoResult == [status |-> "NoResult"]

Init ==
  /\ registry = <<>>
  /\ vault = {}
  /\ cmd = [op |-> "none"]
  /\ events = <<>>
  /\ result = NoResult
  /\ exitCode = 0
  /\ env = DefaultEnv
  /\ fs = DefaultFs

\* a command is a process of its own: it starts with nothing printed, no
\* result and process.exitCode unset, and finds the registry and the vault
\* as the processes before it left them
Idle == cmd.op = "none"

NewProcess ==
  /\ ~Idle
  /\ cmd' = [op |-> "none"]
  /\ events' = <<>>
  /\ result' = NoResult
  /\ exitCode' = 0
  /\ UNCHANGED <<registry, vault, env, fs>>

InitConfig ==
  \E name \in Names, account_id \in Accounts, access_key_id \in KeyIds,
     secret_access_key \in Secrets, h \in Hosts, touched \in BOOLEAN :
    LET run == initConfig(registry, vault,
                          [name |-> name, account |-> account_id],
                          [access_key_id |-> access_key_id,
                           secret_access_key |-> secret_access_key],
                          h, touched)
    IN  /\ Idle
        /\ registry' = run.registry
        /\ vault' = run.vault
        /\ exitCode' = run.exitCode
        /\ events' = run.events
        /\ result' = NoResult
        /\ cmd' = [op |-> "add", name |-> name, account_id |-> account_id,
                   access_key_id |-> access_key_id,
                   secret_access_key |-> secret_access_key,
                   keytar |-> loadKeytar(h), touched |-> touched]
        /\ UNCHANGED <<env, fs>>

ImportConfig ==
  \E in \in ImportInputs, h \in Hosts, touched \in BOOLEAN :
    LET run == importConfig(registry, vault, in, h, touched)
    IN  /\ Idle
        /\ registry' = run.registry
        /\ vault' = run.vault
        /\ exitCode' = run.exitCode
        /\ events' = run.events
        /\ result' = NoResult
        /\ cmd' = [op |-> "import", in |-> in,
                   keytar |-> loadKeytar(h), touched |-> touched]
        /\ UNCHANGED <<env, fs>>

ListConfigs ==
  \E touched \in BOOLEAN :
    LET run == listConfigs(registry, touched)
    IN  /\ Idle
        /\ exitCode' = run.exitCode
        /\ events' = run.events
        /\ result' = NoResult
        /\ cmd' = [op |-> "list", touched |-> touched]
        /\ UNCHANGED <<registry, vault, env, fs>>

\* what a caller of the resolver gets when createInitialConfig().unwrap() throws
UnwrapThrew == [status |-> "Throw", events |-> <<Thrown>>]

RetrieveConfig ==
  \E accountOrProfile \in Identifiers, h \in Hosts, touched \in BOOLEAN :
    LET configFilePath == createInitialConfig(touched)
        run == IF configFilePath.ok
                 THEN retrieveConfig(registry, vault, h, accountOrProfile,
                                     configFilePath.val)
                 ELSE UnwrapThrew
    IN  /\ Idle
        /\ result' = [f \in DOMAIN run \ {"events"} |-> run[f]]
        /\ events' = run.events
        /\ exitCode' = IF run.status = "Ok" THEN 0 ELSE 1
        /\ cmd' = [op |-> "retrieveConfig", accountOrProfile |-> accountOrProfile,
                   keytar |-> loadKeytar(h), touched |-> touched]
        /\ UNCHANGED <<registry, vault, env, fs>>

RetrieveOnlyConfig ==
  \E h \in Hosts, touched \in BOOLEAN, pick \in 1..(IF Len(registry) = 0 THEN 1 ELSE Len(registry)) :
    LET configFilePath == createInitialConfig(touched)
        run == IF configFilePath.ok
                 THEN retrieveOnlyConfig(registry, vault, h, pick, configFilePath.val)
                 ELSE UnwrapThrew
    IN  /\ Idle
        /\ result' = [f \in DOMAIN run \ {"events"} |-> run[f]]
        /\ events' = run.events
        /\ exitCode' = IF run.status = "Ok" THEN 0 ELSE 1
        /\ cmd' = [op |-> "retrieveOnlyConfig", pick |-> pick,
                   keytar |-> loadKeytar(h), touched |-> touched]
        /\ UNCHANGED <<registry, vault, env, fs>>

Next ==
  \/ NewProcess
  \/ InitConfig
  \/ ImportConfig
  \/ ListConfigs
  \/ RetrieveConfig
  \/ RetrieveOnlyConfig

Spec == Init /\ [][Next]_vars

(***************************************************************************)
(* Looking for the registry path on a machine                              *)
(***************************************************************************)
InitPaths ==
  /\ registry = <<>>
  /\ vault = {}
  /\ cmd = [op |-> "none"]
  /\ events = <<>>
  /\ result = NoResult
  /\ exitCode = 0
  /\ \E machine \in Machines : env = machine[1] /\ fs = machine[2]

\* new CandidatePaths('cloudflare', 'r2.toml').createInitialConfig(), the
\* first thing every command does
CreateInitialConfig ==
  LET r2ConfigPaths == CandidatePaths("cloudflare", "r2.toml", env)
      run == CandidatePaths_createInitialConfig(r2ConfigPaths, env.platform, fs)
  IN  /\ fs' = run.fs
      /\ result' = [f \in DOMAIN run \ {"events", "fs"} |-> run[f]]
      /\ events' = run.events
      /\ cmd' = [op |-> "createInitialConfig"]
      /\ UNCHANGED <<registry, vault, exitCode, env>>

\* the command then saves the registry at the path it was given
WriteTextFile ==
  LET run == writeTextFile(fs, result.val, RegistryText)
  IN  /\ cmd.op = "createInitialConfig"
      /\ result.status = "Ok"
      /\ fs' = run.fs
      /\ events' = <<[type |-> "writeTextFile", path |-> result.val, error |-> run.err]>>
      /\ cmd' = [op |-> "writeTextFile"]
      /\ UNCHANGED <<registry, vault, result, exitCode, env>>

NextPaths ==
  \/ CreateInitialConfig
  \/ WriteTextFile

SpecPaths == InitPaths /\ [][NextPaths]_vars

(***************************************************************************)
(* The request execution engine (handleS3Cmd)                              *)
(***************************************************************************)
\* values of JavaScript whose type the code tests or that may be undefined
JsUndefined == [typeof |-> "undefined"]
JsNumber(n) == [typeof |-> "number", num |-> n]
JsString(str) == [typeof |-> "string", str |-> str]
JsArray(array) == [typeof |-> "object", items |-> array]

\* s.split(sep)
RECURSIVE split(_, _)
split(s, sep) ==
  LET hits == { i \in 1..Len(s) : CharAt(s, i) = sep }
      first == CHOOSE i \in hits : \A j \in hits : i <= j
  IN  IF hits = {} THEN <<s>>
      ELSE <<SubSeq(s, 1, first - 1)>> \o split(SubSeq(s, first + 1, Len(s)), sep)

\* an object of headers: its [k, v] entries in insertion order, keys unique
HeaderKeys(headers) == { headers[i].k : i \in 1..Len(headers) }

\* headers[k] = v
SetHeader(headers, k, v) ==
  IF k \in HeaderKeys(headers)
    THEN [i \in 1..Len(headers) |->
            IF headers[i].k = k THEN [k |-> k, v |-> v] ELSE headers[i]]
    ELSE Append(headers, [k |-> k, v |-> v])

\* the sign-header pairs applied from the last one to the first
RECURSIVE applySignHeadersBackwards(_, _, _)
applySignHeadersBackwards(headers, pairs, i) ==
  IF i > Len(pairs) THEN headers
  ELSE LET kv == split(pairs[i], "=")
       IN  SetHeader(applySignHeadersBackwards(headers, pairs, i + 1), At(kv, 0), At(kv, 1))

\* for (const [k, v] of pairs.map((kv) => kv.split('='))) headers[k] = v,
\* from pairs[i] on
RECURSIVE applySignHeaders(_, _, _)
applySignHeaders(headers, pairs, i) ==
  IF i > Len(pairs) THEN headers
  ELSE LET kv == split(pairs[i], "=")
       IN  applySignHeaders(SetHeader(headers, At(kv, 0), At(kv, 1)), pairs, i + 1)

\* the headers after the sign-header option was merged into them
mergeSignHeaders(headers, signHeader) ==
  IF signHeader.typeof = "undefined" \/ signHeader = JsString("") THEN headers
  ELSE IF signHeader.typeof = "string"
    THEN applySignHeaders(headers, <<signHeader.str>>, 1)
  ELSE applySignHeaders(headers, signHeader.items, 1)

\* a Put command presigned as PUT
presignMethodPut(name) ==
  IF StartsWith(name, "Put") THEN "PUT"
  ELSE IF StartsWith(name, "Delete") THEN "DELETE"
  ELSE IF StartsWith(name, "Head") THEN "HEAD"
  ELSE "GET"

\* the method of the emitted command line, from command.constructor.name
presignMethod(name) ==
  IF StartsWith(name, "Put") THEN "GET"
  ELSE IF StartsWith(name, "Delete") THEN "DELETE"
  ELSE IF StartsWith(name, "Head") THEN "HEAD"
  ELSE "GET"

DefaultExpiresIn == 86400
MsPerSecond == 1000

\* what yargs gives for expires-in: the option, or its default
addPresignArg(expiresIn) ==
  IF expiresIn.typeof = "undefined" THEN DefaultExpiresIn ELSE expiresIn.num

\* a Date as text and as X-Amz-Date: to the second
toUTCString(date) == ToString(date \div MsPerSecond)

\* -H 'k: v' for every entry of headers from headers[i] on
RECURSIVE curlHeaderArgs(_, _)
curlHeaderArgs(headers, i) ==
  IF i > Len(headers) THEN <<>>
  ELSE <<"-H", "'" \o headers[i].k \o ": " \o ToStr(headers[i].v) \o "'">>
         \o curlHeaderArgs(headers, i + 1)

\* the URL getSignedUrl returns for the command
getSignedUrl(config, command, options) ==
  Endpoint(config.account_id) \o "/" \o command.name
    \o "?X-Amz-Date=" \o toUTCString(options.signingDate)
    \o "&X-Amz-Expires=" \o ToString(options.expiresIn)

\* lines 603-648 for the merged headers: the expiry, the method, the signed
\* URL and the command line that is printed
signedCommandLine(config, command, merged, signableHeaders, expiryInXSeconds, now) ==
  LET expiryDate == now + expiryInXSeconds * MsPerSecond
      method == presignMethod(command.name)
      options == [expiresIn |-> expiryInXSeconds,
                  signableHeaders |-> signableHeaders, signingDate |-> now]
      presignedUrl == getSignedUrl(config, command, options)
      curlArgs == <<"curl", "-X", method>> \o curlHeaderArgs(merged, 1)
                    \o <<"'" \o presignedUrl \o "'">>
  IN  [status |-> "Done", exitCode |-> 0,
       events |-> << [type |-> "addHeaders", headers |-> merged],
                     [type |-> "getSignedUrl", command |-> command.name,
                      options |-> options],
                     [type |-> "info", text |-> "URL expires " \o toUTCString(expiryDate)],
                     [type |-> "stdout", curlArgs |-> curlArgs] >>]

\* the signable headers being the caller's headers only
presignCallerHeadersOnly(config, argv, command, headers, now) ==
  LET merged == mergeSignHeaders(headers, argv.sign_header)
  IN  signedCommandLine(config, command, merged, HeaderKeys(headers),
                        addPresignArg(argv.expires_in), now)

\* the command sent as well as presigned
presignAndSend(config, argv, command, headers, now) ==
  LET merged == mergeSignHeaders(headers, argv.sign_header)
      signed == signedCommandLine(config, command, merged, HeaderKeys(merged),
                                  addPresignArg(argv.expires_in), now)
  IN  [signed EXCEPT !.events = @ \o <<[type |-> "send", command |-> command.name,
                                        endpoint |-> Endpoint(config.account_id),
                                        headers |-> merged]>>]

\* the presign branch: the sign-header option is merged into the headers,
\* nothing is sent, the command line is printed
presign(config, argv, command, headers, now) ==
  LET merged == mergeSignHeaders(headers, argv.sign_header)
  IN  signedCommandLine(config, command, merged, HeaderKeys(merged),
                        addPresignArg(argv.expires_in), now)

\* fs.accessSync(p, W_OK): the error it throws, NoError when it returns
accessSync(f, p) ==
  IF NodeAt(f, p).kind = "absent" THEN ErrnoException("ENOENT")
  ELSE IF ~NodeAt(f, p).writable THEN ErrnoException("EACCES")
  ELSE NoError

\* opening the stream of createWriteStream(p): the file is created or emptied
createWriteStream(f, p) ==
  IF p = "" THEN [err |-> ErrnoException("ENOENT"), fs |-> f]
  ELSE writeTextFile(f, p, "")

\* the chunks of the body written to the open file p, from chunks[i] on
RECURSIVE writeChunks(_, _, _, _)
writeChunks(f, p, chunks, i) ==
  IF i > Len(chunks) THEN f
  ELSE writeChunks(Put(f, p, File(NodeAt(f, p).content \o chunks[i], TRUE)),
                   p, chunks, i + 1)

\* what streaming the chunks reports: per chunk the progress bar increment
\* (when there is a bar) and the write to the output
RECURSIVE streamEvents(_, _, _, _)
streamEvents(p, chunks, i, bar) ==
  IF i > Len(chunks) THEN <<>>
  ELSE (IF bar THEN <<[type |-> "increment", by |-> Len(chunks[i])]>> ELSE <<>>)
         \o <<[type |-> "write", path |-> p, chunk |-> chunks[i]]>>
         \o streamEvents(p, chunks, i + 1, bar)

\* the body streamed to the output: through the progress bar and pipeline
\* when the length is known and the output is a file, else with pipe, and
\* then the handler waits for an 'end' of the output
stream(f, p, chunks, bodyLength) ==
  LET output == createWriteStream(f, p)
      bar == bodyLength.typeof # "undefined" /\ p # "-"
      start == IF bar THEN <<[type |-> "start", total |-> bodyLength.num]>> ELSE <<>>
      stop == IF bar THEN <<[type |-> "stop"]>> ELSE <<>>
  IN  IF p = "-"
        THEN [status |-> "Pending", exitCode |-> 0, fs |-> f,
              events |-> streamEvents(p, chunks, 1, FALSE)]
      ELSE IF output.err # NoError
        THEN [status |-> "Threw", exitCode |-> 1, fs |-> f,
              events |-> start \o <<[type |-> "open", path |-> p, error |-> output.err]>>]
      ELSE [status |-> IF bar THEN "Done" ELSE "Pending", exitCode |-> 0,
            fs |-> writeChunks(output.fs, p, chunks, 1),
            events |-> start \o <<[type |-> "open", path |-> p, error |-> NoError]>>
                         \o streamEvents(p, chunks, 1, bar) \o stop]

\* opening the output without asking
saveBodyNoPrompt(f, argv, chunks, bodyLength, overwrite) ==
  LET inferred == IF argv.save_body_to # Undefined THEN argv.save_body_to
                  ELSE IF argv.object # Undefined
                    THEN split(argv.object, "/")[Len(split(argv.object, "/"))]
                  ELSE Undefined
      streamed == stream(f, inferred, chunks, bodyLength)
  IN  IF inferred = Undefined
        THEN [status |-> "Done", exitCode |-> 0, fs |-> f,
              events |-> <<[type |-> "warn", text |-> "not saved"]>>]
      ELSE streamed

\* the part of the handler that saves a body: the destination, the
\* overwrite prompt, the output
\* the whole object key taken as the inferred destination
saveBodyWholeKey(f, argv, chunks, bodyLength, overwrite) ==
  LET inferred == IF argv.save_body_to # Undefined THEN argv.save_body_to
                  ELSE argv.object
      access == accessSync(f, inferred)
      accessed == <<[type |-> "accessSync", path |-> inferred, error |-> access]>>
      asked == <<[type |-> "prompt", name |-> "overwrite", answer |-> overwrite]>>
      streamed == stream(f, inferred, chunks, bodyLength)
  IN  IF inferred = Undefined
        THEN [status |-> "Done", exitCode |-> 0, fs |-> f,
              events |-> <<[type |-> "warn", text |-> "not saved"]>>]
      ELSE IF inferred = "-" THEN streamed
      ELSE IF access = NoError /\ ~overwrite
        THEN [status |-> "Done", exitCode |-> 0, fs |-> f, events |-> accessed \o asked]
      ELSE IF access = NoError
        THEN [streamed EXCEPT !.events = accessed \o asked \o @]
      ELSE IF access.code = "ENOENT"
        THEN [streamed EXCEPT !.events = accessed \o @]
      ELSE [status |-> "Failed", exitCode |-> 1, fs |-> f,
            events |-> accessed \o <<ErrorEvent("Unrecognized error trying to save")>>]

saveBody(f, argv, chunks, bodyLength, overwrite) ==
  LET inferred == IF argv.save_body_to # Undefined THEN argv.save_body_to
                  ELSE IF argv.object # Undefined
                    THEN split(argv.object, "/")[Len(split(argv.object, "/"))]
                  ELSE Undefined
      access == accessSync(f, inferred)
      accessed == <<[type |-> "accessSync", path |-> inferred, error |-> access]>>
      asked == <<[type |-> "prompt", name |-> "overwrite", answer |-> overwrite]>>
      streamed == stream(f, inferred, chunks, bodyLength)
  IN  IF inferred = Undefined
        THEN [status |-> "Done", exitCode |-> 0, fs |-> f,
              events |-> <<[type |-> "warn", text |-> "not saved"]>>]
      ELSE IF inferred = "-" THEN streamed
      ELSE IF access = NoError /\ ~overwrite
        THEN [status |-> "Done", exitCode |-> 0, fs |-> f, events |-> accessed \o asked]
      ELSE IF access = NoError
        THEN [streamed EXCEPT !.events = accessed \o asked \o @]
      ELSE IF access.code = "ENOENT"
        THEN [streamed EXCEPT !.events = accessed \o @]
      ELSE [status |-> "Failed", exitCode |-> 1, fs |-> f,
            events |-> accessed \o <<ErrorEvent("Unrecognized error trying to save")>>]

\* a failed send sent once more before it is reported
sendAndSaveRetrying(config, f, argv, command, headers, world) ==
  LET debug == IF argv.verbose THEN <<[type |-> "debug", command |-> command.name]>>
               ELSE <<>>
      sent == debug \o <<[type |-> "send", command |-> command.name,
                          endpoint |-> Endpoint(config.account_id),
                          headers |-> headers]>>
      response == world.send
      saved == saveBody(f, argv, response.Body.items, response.ContentLength, world.overwrite)
  IN  IF response.kind = "error" /\ ~response.hasMetadata
        THEN [status |-> "Threw", exitCode |-> 1, fs |-> f, events |-> sent \o sent]
      ELSE IF response.kind = "error"
        THEN [status |-> "Failed", exitCode |-> 1, fs |-> f,
              events |-> sent \o sent \o <<[type |-> "error", text |-> "Failed",
                                   httpStatusCode |-> response.httpStatusCode]>>]
      ELSE IF response.Body.typeof = "undefined"
        THEN [status |-> "Done", exitCode |-> 0, fs |-> f,
              events |-> sent \o <<[type |-> "info", text |-> "response"]>>]
      ELSE [saved EXCEPT !.events = sent \o <<[type |-> "info", text |-> "response"]>> \o @]

\* the command sent with the caller's headers, and what follows the response
\* a logRequest middleware that logs the request and does not pass it on
sendAndSaveLoggedOnly(config, f, argv, command, headers, world) ==
  LET debug == <<[type |-> "debug", command |-> command.name]>>
      sent == <<[type |-> "send", command |-> command.name,
                 endpoint |-> Endpoint(config.account_id),
                 headers |-> headers]>>
      response == world.send
      saved == saveBody(f, argv, response.Body.items, response.ContentLength, world.overwrite)
  IN  IF argv.verbose
        THEN [status |-> "Done", exitCode |-> 0, fs |-> f,
              events |-> debug \o <<[type |-> "info", text |-> "response"]>>]
      ELSE IF response.kind = "error" /\ ~response.hasMetadata
        THEN [status |-> "Threw", exitCode |-> 1, fs |-> f, events |-> sent]
      ELSE IF response.kind = "error"
        THEN [status |-> "Failed", exitCode |-> 1, fs |-> f,
              events |-> sent \o <<[type |-> "error", text |-> "Failed",
                                   httpStatusCode |-> response.httpStatusCode]>>]
      ELSE IF response.Body.typeof = "undefined"
        THEN [status |-> "Done", exitCode |-> 0, fs |-> f,
              events |-> sent \o <<[type |-> "info", text |-> "response"]>>]
      ELSE [saved EXCEPT !.events = sent \o <<[type |-> "info", text |-> "response"]>> \o @]

sendAndSave(config, f, argv, command, headers, world) ==
  LET debug == IF argv.verbose THEN <<[type |-> "debug", command |-> command.name]>>
               ELSE <<>>
      sent == debug \o <<[type |-> "send", command |-> command.name,
                          endpoint |-> Endpoint(config.account_id),
                          headers |-> headers]>>
      response == world.send
      saved == saveBody(f, argv, response.Body.items, response.ContentLength, world.overwrite)
  IN  IF response.kind = "error" /\ ~response.hasMetadata
        THEN [status |-> "Threw", exitCode |-> 1, fs |-> f, events |-> sent]
      ELSE IF response.kind = "error"
        THEN [status |-> "Failed", exitCode |-> 1, fs |-> f,
              events |-> sent \o <<[type |-> "error", text |-> "Failed",
                                   httpStatusCode |-> response.httpStatusCode]>>]
      ELSE IF response.Body.typeof = "undefined"
        THEN [status |-> "Done", exitCode |-> 0, fs |-> f,
              events |-> sent \o <<[type |-> "info", text |-> "response"]>>]
      ELSE [saved EXCEPT !.events = sent \o <<[type |-> "info", text |-> "response"]>> \o @]

\* the resolver call of the handler: explicit with an account argument,
\* implicit without
resolveConfig(existingConfig, v, argv, world) ==
  LET configFilePath == createInitialConfig(world.touched)
  IN  IF ~configFilePath.ok THEN UnwrapThrew
      ELSE IF Truthy(argv.account)
        THEN retrieveConfig(existingConfig, v, world.h, argv.account, configFilePath.val)
      ELSE retrieveOnlyConfig(existingConfig, v, world.h, world.pick, configFilePath.val)

Resolved(config) == [type |-> "resolved", status |-> config.status]

\* going on after a failed resolution as if it had given a credential
handleS3CmdUnchecked(existingConfig, v, f, argv, command, headers, world) ==
  LET config == resolveConfig(existingConfig, v, argv, world)
      val == IF config.status = "Ok" THEN config.val
             ELSE [account_id |-> Undefined, access_key_id |-> Undefined,
                   secret_access_key |-> Undefined]
      resolved == config.events \o <<Resolved(config)>>
      signed == presign(val, argv, command, headers, world.now)
      sent == sendAndSave(val, f, argv, command, headers, world)
  IN  IF config.status = "Throw"
        THEN [status |-> "Threw", exitCode |-> 1, fs |-> f, events |-> resolved]
      ELSE IF argv.presign
        THEN [status |-> signed.status, exitCode |-> signed.exitCode, fs |-> f,
              events |-> resolved \o signed.events]
      ELSE [sent EXCEPT !.events = resolved \o @]

\* handleS3Cmd(argv, command, progressBarCreator, headers) on the registry,
\* the vault and the filesystem, in the world it runs in
handleS3Cmd(existingConfig, v, f, argv, command, headers, world) ==
  LET config == resolveConfig(existingConfig, v, argv, world)
      resolved == config.events \o <<Resolved(config)>>
      signed == presign(config.val, argv, command, headers, world.now)
      sent == sendAndSave(config.val, f, argv, command, headers, world)
  IN  IF config.status = "Throw"
        THEN [status |-> "Threw", exitCode |-> 1, fs |-> f, events |-> resolved]
      ELSE IF config.status = "Err"
        THEN [status |-> "Failed", exitCode |-> 1, fs |-> f, events |-> resolved]
      ELSE IF argv.presign
        THEN [status |-> signed.status, exitCode |-> signed.exitCode, fs |-> f,
              events |-> resolved \o signed.events]
      ELSE [sent EXCEPT !.events = resolved \o @]

(***************************************************************************)
(* The s3 commands: their inputs and the state machine of the engine       *)
(***************************************************************************)
CommandNames ==
  { "ListBucketsCommand", "CreateBucketCommand", "HeadBucketCommand",
    "GetBucketCorsCommand", "DeleteBucketCorsCommand", "ListObjectsV2Command",
    "HeadObjectCommand", "GetObjectCommand", "PutObjectCommand" }

\* the headers a command passes to the handler
BaseHeaders == { <<>>, <<[k |-> "A", v |-> "1"]>> }

SignHeaderArgs ==
  { JsUndefined, JsString("A=2"), JsString("A"), JsString("A=b=c"),
    JsArray(<<"A=2", "B=3">>), JsArray(<<"B=3", "A=2", "B=4">>) }

ExpiresInArgs == { JsUndefined, JsNumber(60) }

\* Date.now() in milliseconds
Nows == { 5000, 5999 }

AccountArgs == { Undefined, "", "work", HexAccount, "nope" }

BodyChunks == <<"ab", "c">>

\* what client.send gives: a response without a body, with a body of known
\* or unknown length, or an error: with a status, without one, and one
\* raised before the request has metadata
SendOutcomes ==
  { [kind |-> "ok", Body |-> JsUndefined, ContentLength |-> JsUndefined],
    [kind |-> "ok", Body |-> JsArray(BodyChunks), ContentLength |-> JsNumber(3)],
    [kind |-> "ok", Body |-> JsArray(BodyChunks), ContentLength |-> JsUndefined],
    [kind |-> "error", hasMetadata |-> TRUE, httpStatusCode |-> JsNumber(404)],
    [kind |-> "error", hasMetadata |-> TRUE, httpStatusCode |-> JsUndefined],
    [kind |-> "error", hasMetadata |-> FALSE, httpStatusCode |-> JsUndefined] }

Darwin == CHOOSE h \in Hosts : h.os = "darwin"

DefaultArgv ==
  [account |-> "work", presign |-> FALSE, expires_in |-> JsUndefined,
   sign_header |-> JsUndefined, save_body_to |-> Undefined, object |-> Undefined,
   verbose |-> FALSE]

DefaultWorld ==
  [h |-> Darwin, touched |-> TRUE, pick |-> 1, now |-> 5000,
   send |-> [kind |-> "ok", Body |-> JsArray(BodyChunks), ContentLength |-> JsNumber(3)],
   overwrite |-> FALSE]

\* presigning every command with every combination of headers and expiry
PresignInputs ==
  { [argv |-> [DefaultArgv EXCEPT !.presign = TRUE, !.expires_in = expiresIn,
                                  !.sign_header = signHeader],
     command |-> [name |-> name], headers |-> headers,
     world |-> [DefaultWorld EXCEPT !.now = now]] :
      name \in CommandNames, headers \in BaseHeaders, signHeader \in SignHeaderArgs,
      expiresIn \in ExpiresInArgs, now \in Nows }

\* resolving with every account argument on every host
ResolveInputs ==
  { [argv |-> [DefaultArgv EXCEPT !.account = account, !.presign = flag,
                                  !.object = "a.txt"],
     command |-> [name |-> "GetObjectCommand"], headers |-> <<>>,
     world |-> [DefaultWorld EXCEPT !.h = h, !.touched = touched, !.pick = pick]] :
      account \in AccountArgs, flag \in BOOLEAN, h \in Hosts,
      touched \in BOOLEAN, pick \in 1..2 }

\* sending, with every response, destination and answer
ExecuteInputs ==
  { [argv |-> [DefaultArgv EXCEPT !.object = object, !.save_body_to = saveBodyTo,
                                  !.verbose = verbose, !.sign_header = signHeader],
     command |-> [name |-> name], headers |-> headers,
     world |-> [DefaultWorld EXCEPT !.send = send, !.overwrite = overwrite]] :
      object \in {Undefined, "a.txt", "dir/a.txt", "dir/"},
      saveBodyTo \in {Undefined, "-", "a.txt"}, verbose \in BOOLEAN,
      signHeader \in {JsUndefined, JsString("B=3")},
      name \in {"GetObjectCommand", "HeadObjectCommand"}, headers \in BaseHeaders,
      send \in SendOutcomes, overwrite \in BOOLEAN }

S3Inputs == PresignInputs \cup ResolveInputs \cup ExecuteInputs

\* registries and vaults the config commands leave behind: no profile, one,
\* two, and a profile whose secret is not in the vault
S3Setups ==
  LET work == [name |-> "work", info |-> AddedEntry(HexAccount, "k1")]
      home == [name |-> "home", info |-> AddedEntry("acme", "k2")]
      s1 == setPassword({}, Endpoint(HexAccount), "k1", "s1")
      s2 == setPassword(s1, Endpoint("acme"), "k2", "s2")
  IN  { [registry |-> <<>>, vault |-> {}],
        [registry |-> <<work>>, vault |-> s1],
        [registry |-> <<work, home>>, vault |-> s2],
        [registry |-> <<work>>, vault |-> {}] }

\* the working directory, with the file a.txt missing, there, or read-only
DestFilesystems ==
  { [p \in {".", "a.txt"} |-> IF p = "." THEN Dir(TRUE) ELSE node] :
      node \in {Absent, File("old", TRUE), File("old", FALSE)} }

InitS3 ==
  /\ \E setup \in S3Setups : registry = setup.registry /\ vault = setup.vault
  /\ cmd = [op |-> "none"]
  /\ events = <<>>
  /\ result = NoResult
  /\ exitCode = 0
  /\ env = DefaultEnv
  /\ fs \in DestFilesystems

HandleS3Cmd ==
  \E in \in S3Inputs :
    LET run == handleS3Cmd(registry, vault, fs, in.argv, in.command, in.headers, in.world)
    IN  /\ Idle
        /\ in.world.pick <= (IF Len(registry) = 0 THEN 1 ELSE Len(registry))
        /\ fs' = run.fs
        /\ events' = run.events
        /\ exitCode' = run.exitCode
        /\ result' = [status |-> run.status]
        /\ cmd' = [op |-> "s3", argv |-> in.argv, command |-> in.command,
                   headers |-> in.headers, world |-> in.world]
        /\ UNCHANGED <<registry, vault, env>>

NextS3 ==
  \/ NewProcess
  \/ HandleS3Cmd

SpecS3 == InitS3 /\ [][NextS3]_vars

(***************************************************************************)
(* Profiles named like account ids                                         *)
(***************************************************************************)
\* profile names of which one is also the account id of the account acme
ClashingNames == {"acme", "work"}

\* config add with a profile name of ClashingNames
InitConfigAnyName ==
  \E name \in ClashingNames, account_id \in Accounts, access_key_id \in KeyIds,
     secret_access_key \in Secrets, h \in Hosts :
    LET run == initConfig(registry, vault,
                          [name |-> name, account |-> account_id],
                          [access_key_id |-> access_key_id,
                           secret_access_key |-> secret_access_key],
                          h, TRUE)
    IN  /\ Idle
        /\ registry' = run.registry
        /\ vault' = run.vault
        /\ exitCode' = run.exitCode
        /\ events' = run.events
        /\ result' = NoResult
        /\ cmd' = [op |-> "add", name |-> name, account_id |-> account_id,
                   access_key_id |-> access_key_id,
                   secret_access_key |-> secret_access_key,
                   keytar |-> loadKeytar(h), touched |-> TRUE]
        /\ UNCHANGED <<env, fs>>

NextNames ==
  \/ NewProcess
  \/ InitConfigAnyName
  \/ RetrieveConfig

SpecNames == Init /\ [][NextNames]_vars

(***************************************************************************)
(* The transfer of a body, chunk by chunk                                  *)
(***************************************************************************)
\* the most milliseconds between two readings of Date.now()
MaxDelay == 2

\* the bodies of a response, as the chunks the source stream emits
StreamBodies == { <<>>, <<"ab">>, <<"ab", "c">>, <<"ab", "c", "def">> }

\* argv['save-body-to'] when the output is opened
StreamDestinations == { "-", "a.txt", "" }

\* the number of bytes of the chunks from chunks[i] on
RECURSIVE ByteLength(_, _)
ByteLength(chunks, i) ==
  IF i > Len(chunks) THEN 0 ELSE Len(chunks[i]) + ByteLength(chunks, i + 1)

\* the events a Writable emits; 'end' is an event of a Readable
WritableEvents == { "close", "drain", "error", "finish", "pipe", "unpipe" }

\* the quotient a / b of two numbers, kept exact
Divide(a, b) == [num |-> a, den |-> b]

\* the throughput the Transform computes for a chunk at the time now
throughput(chunk, now, measurementStart) ==
  LET elapsedSeconds == Divide(now - measurementStart, MsPerSecond)
      bytesTransferred == Len(chunk)
  IN  Divide(bytesTransferred * elapsedSeconds.den, elapsedSeconds.num)

InitStream ==
  /\ registry = <<>>
  /\ vault = {}
  /\ cmd = [op |-> "none"]
  /\ events = <<>>
  /\ result = NoResult
  /\ exitCode = 0
  /\ env = DefaultEnv
  /\ fs \in DestFilesystems

Streaming == cmd.op = "stream" /\ result.status = "Streaming"

\* the handler past the access check: the output is created, the progress
\* bar started when the length is known and the output is a file
OpenOutput ==
  \E p \in StreamDestinations, chunks \in StreamBodies, known \in BOOLEAN :
    LET output == createWriteStream(fs, p)
        bar == known /\ p # "-"
        bodyLength == IF known THEN JsNumber(ByteLength(chunks, 1)) ELSE JsUndefined
        start == IF bar THEN <<[type |-> "start", total |-> bodyLength.num]>> ELSE <<>>
        open == IF p # "-" THEN <<[type |-> "open", path |-> p, error |-> output.err]>>
                ELSE <<>>
    IN  /\ Idle
        /\ p = "-" \/ accessSync(fs, p) = NoError
                   \/ accessSync(fs, p) = ErrnoException("ENOENT")
        /\ cmd' = [op |-> "stream", save_body_to |-> p, chunks |-> chunks,
                   bodyLength |-> bodyLength]
        /\ result' = [status |-> "Streaming", bar |-> bar, sent |-> 0,
                      bodyEnd |-> FALSE, emitted |-> {},
                      failed |-> (p # "-" /\ output.err # NoError),
                      now |-> DefaultWorld.now, measurementStart |-> DefaultWorld.now]
        /\ events' = start \o open
        /\ fs' = IF p = "-" THEN fs ELSE output.fs
        /\ exitCode' = 0
        /\ UNCHANGED <<registry, vault, env>>

\* the bytes of chunk written to the output p
WriteChunk(f, p, chunk) ==
  IF p = "-" THEN f ELSE Put(f, p, File(NodeAt(f, p).content \o chunk, TRUE))

\* transform(chunk, encoding, callback) of the known-length branch
TransformChunk ==
  \E delay \in 0..MaxDelay :
    LET chunk == cmd.chunks[result.sent + 1]
        now == result.now + delay
    IN  /\ Streaming
        /\ result.bar
        /\ ~result.failed
        /\ result.sent < Len(cmd.chunks)
        /\ result' = [result EXCEPT !.sent = @ + 1, !.now = now]
        /\ events' = events \o
             <<[type |-> "increment", by |-> Len(chunk),
                speed |-> throughput(chunk, now, result.measurementStart),
                at |-> now],
               [type |-> "write", path |-> cmd.save_body_to, chunk |-> chunk]>>
        /\ fs' = WriteChunk(fs, cmd.save_body_to, chunk)
        /\ UNCHANGED <<registry, vault, cmd, exitCode, env>>

\* a chunk of body.pipe(output)
PipeChunk ==
  LET chunk == cmd.chunks[result.sent + 1]
  IN  /\ Streaming
      /\ ~result.bar
      /\ ~result.failed
      /\ result.sent < Len(cmd.chunks)
      /\ result' = [result EXCEPT !.sent = @ + 1]
      /\ events' = events \o
           <<[type |-> "write", path |-> cmd.save_body_to, chunk |-> chunk]>>
      /\ fs' = WriteChunk(fs, cmd.save_body_to, chunk)
      /\ UNCHANGED <<registry, vault, cmd, exitCode, env>>

\* the body emits 'end' after its last chunk
BodyEnd ==
  /\ Streaming
  /\ ~result.failed
  /\ result.sent = Len(cmd.chunks)
  /\ ~result.bodyEnd
  /\ result' = [result EXCEPT !.bodyEnd = TRUE]
  /\ events' = events \o <<[type |-> "end", of |-> "body"]>>
  /\ UNCHANGED <<registry, vault, cmd, exitCode, env, fs>>

\* the file stream is ended with the body, flushes and emits 'finish' and
\* 'close'; process.stdout is not ended by pipe
OutputFinish ==
  /\ Streaming
  /\ result.bodyEnd
  /\ cmd.save_body_to # "-"
  /\ "finish" \notin result.emitted
  /\ result' = [result EXCEPT !.emitted = @ \cup ({"finish", "close"} \cap WritableEvents)]
  /\ events' = events \o <<[type |-> "finish", of |-> "output"]>>
  /\ UNCHANGED <<registry, vault, cmd, exitCode, env, fs>>

\* the output that could not be opened emits 'error': pipeline, or the
\* promise on the output, rejects and the handler throws
OutputError ==
  /\ Streaming
  /\ result.failed
  /\ result' = [result EXCEPT !.status = "Threw", !.emitted = @ \cup {"error"}]
  /\ events' = events \o <<[type |-> "error", of |-> "output"]>>
  /\ exitCode' = 1
  /\ UNCHANGED <<registry, vault, cmd, env, fs>>

\* the await of the handler is over: pipeline resolves when the output has
\* finished, and the bar is stopped; Promise.all resolves when the body has
\* emitted 'end' and the output has emitted 'end'
Settle ==
  /\ Streaming
  /\ IF result.bar THEN "finish" \in result.emitted
     ELSE result.bodyEnd /\ "end" \in result.emitted
  /\ result' = [result EXCEPT !.status = "Done"]
  /\ events' = events \o (IF result.bar THEN <<[type |-> "stop"]>> ELSE <<>>)
  /\ UNCHANGED <<registry, vault, cmd, exitCode, env, fs>>

NextStream ==
  \/ OpenOutput
  \/ TransformChunk
  \/ PipeChunk
  \/ BodyEnd
  \/ OutputFinish
  \/ OutputError
  \/ Settle

SpecStream == InitStream /\ [][NextStream]_vars

\* the event loop runs every callback that is ready
FairStream ==
  /\ SpecStream
  /\ WF_vars(TransformChunk)
  /\ WF_vars(PipeChunk)
  /\ WF_vars(BodyEnd)
  /\ WF_vars(OutputFinish)
  /\ WF_vars(OutputError)
  /\ WF_vars(Settle)

(***************************************************************************)
(* Loading the vault on every kind of host                                 *)
(***************************************************************************)
\* what getos reports, whether /usr/lib/libsecret-1.so is there, and
\* whether the install command would succeed
KeytarHosts ==
  { [os |-> os, libsecret |-> FALSE, dist |-> "", installOk |-> FALSE] :
      os \in {"darwin", "win32"} }
    \cup { [os |-> "linux", libsecret |-> libsecret, dist |-> dist, installOk |-> installOk] :
             libsecret \in BOOLEAN, installOk \in BOOLEAN,
             dist \in {"Arch Linux", "Ubuntu", "Debian GNU/Linux", "Fedora", "Alpine Linux"} }

\* what loadKeytar prints and runs on the host h
loadKeytarTrace(h) ==
  IF h.os = "linux" /\ ~h.libsecret
    THEN IF installCommand(h.dist) = <<>>
           THEN <<[type |-> "console.error", text |-> "not a currently supported Linux distribution"]>>
         ELSE <<[type |-> "console.log", text |-> "Running"],
                [type |-> "execFileSync", file |-> "/usr/bin/sudo",
                 args |-> installCommand(h.dist)]>>
    ELSE <<>>

InitKeytar ==
  /\ \E setup \in S3Setups : registry = setup.registry /\ vault = setup.vault
  /\ cmd = [op |-> "none"]
  /\ events = <<>>
  /\ result = NoResult
  /\ exitCode = 0
  /\ env = DefaultEnv
  /\ fs = DefaultFs

\* retrieveCreds({ account_id, access_key_id }) on a host
RetrieveCreds ==
  \E h \in KeytarHosts, account_id \in Accounts, access_key_id \in KeyIds :
    LET run == retrieveCreds(vault, h, account_id, access_key_id)
    IN  /\ Idle
        /\ result' = [f \in DOMAIN run \ {"events"} |-> run[f]]
        /\ events' = loadKeytarTrace(h) \o run.events
        /\ exitCode' = IF run.status = "Throw" THEN 1 ELSE 0
        /\ cmd' = [op |-> "retrieveCreds", h |-> h, account_id |-> account_id,
                   access_key_id |-> access_key_id]
        /\ UNCHANGED <<registry, vault, env, fs>>

NextKeytar ==
  \/ NewProcess
  \/ RetrieveCreds

SpecKeytar == InitKeytar /\ [][NextKeytar]_vars

TypeOK ==
  /\ exitCode \in {0, 1}
  /\ \A i, j \in 1..Len(registry) : i # j => registry[i].name # registry[j].name

(***************************************************************************)
(* Properties of the resolver                                              *)
(***************************************************************************)
\* the last invocation was retrieveConfig, it read the profile table, and
\* its identifier is not a profile name
ByAccount ==
  /\ cmd.op = "retrieveConfig"
  /\ cmd.touched
  /\ ~HasKey(registry, cmd.accountOrProfile)

\* the entries whose account id is the identifier
MatchingEntries ==
  { i \in 1..Len(registry) : Get(registry[i].info, "account") = cmd.accountOrProfile }

SecretOf(i) ==
  getPassword(vault, "https://" \o registry[i].info.account \o R2Suffix,
              registry[i].info.access_key_id)

Retrievable(i) == cmd.keytar = "Ok" /\ SecretOf(i) # Null

FirstRetrievable ==
  CHOOSE i \in MatchingEntries :
    Retrievable(i) /\ \A j \in MatchingEntries : j < i => ~Retrievable(j)

EventsOfType(type) == SelectSeq(events, LAMBDA e : e.type = type)

\* C1: when the identifier is not a profile name and one or more entries
\* share it as their account id, retrieveConfig returns the credential of
\* the first entry in table order whose secret is retrievable, and warns
\* about (skips) exactly the earlier matching entries, whose secret is missing
C1_FirstRetrievableEntry ==
  (ByAccount /\ \E i \in MatchingEntries : Retrievable(i)) =>
    LET first == FirstRetrievable
        skipped == { j \in MatchingEntries : j < first }
        warned == EventsOfType("warn")
    IN  /\ result.status = "Ok"
        /\ result.val.account_id = cmd.accountOrProfile
        /\ result.val.access_key_id = registry[first].info.access_key_id
        /\ result.val.secret_access_key = SecretOf(first)
        /\ Len(warned) = Cardinality(skipped)
        /\ { warned[k].profile : k \in 1..Len(warned) }
             = { registry[j].name : j \in skipped }

\* an earlier entry of the account was skipped and a later one returned
C1_Witness ==
  /\ ByAccount
  /\ \E i \in MatchingEntries : Retrievable(i)
  /\ \E j \in MatchingEntries : j < FirstRetrievable
  /\ result.status = "Ok"
  /\ result.val.access_key_id = registry[FirstRetrievable].info.access_key_id

\* C2: retrieveOnlyConfig on a table of one profile never prompts; on a
\* table of two or more profiles it prompts exactly once, before any vault
\* read
C2_PromptOnlyWhenAmbiguous ==
  (cmd.op = "retrieveOnlyConfig" /\ cmd.touched) =>
    LET prompts == EventsOfType("prompt") IN
    /\ Len(registry) = 1 => Len(prompts) = 0
    /\ Len(registry) >= 2 =>
         /\ Len(prompts) = 1
         /\ \A i, j \in 1..Len(events) :
              (events[i].type = "prompt" /\ events[j].type = "getPassword") => i < j

\* two profiles, one prompt, then the vault read of the chosen profile
C2_Witness ==
  /\ cmd.op = "retrieveOnlyConfig"
  /\ cmd.touched
  /\ Len(registry) >= 2
  /\ Len(EventsOfType("prompt")) = 1
  /\ Len(EventsOfType("getPassword")) = 1
  /\ result.status = "Ok"

\* the identifiers of the model that are exactly 32 hexadecimal characters
ThirtyTwoHexIdentifiers == { HexAccount, "0123456789abcdefABCDEF0123456789" }

C4_CredentialsMissingDistinct ==
  (/\ ByAccount
   /\ MatchingEntries # {}
   /\ cmd.keytar = "Ok"
   /\ \A i \in MatchingEntries : ~Retrievable(i)) =>
    /\ result.status = "Err"
    /\ result.error # NotFoundError(cmd.accountOrProfile, ConfigFilePath)

(***************************************************************************)
(* Properties of add and import                                            *)
(***************************************************************************)
IsSuccessfulValidation(e, service, account, password) ==
  /\ e.type = "listBuckets"
  /\ e.ok
  /\ e.endpoint = service
  /\ e.accessKeyId = account
  /\ e.secretAccessKey = password

\* the vault write at position i of evs comes after a successful validation
\* of the same credential and after no failed one
WriteIsValidated(evs, i) ==
  /\ \E j \in 1..(i - 1) :
       IsSuccessfulValidation(evs[j], evs[i].service, evs[i].account, evs[i].password)
  /\ \A j \in 1..(i - 1) : evs[j].type = "listBuckets" => evs[j].ok

\* the account ids the last invocation was given: the account argument of
\* add, the first host label of each endpoint of the import source
GivenAccounts(c) ==
  IF c.op = "add" THEN {c.account_id}
  ELSE { a \in Accounts :
           \E i \in 1..Len(c.in.config) :
             StartsWith(Get(c.in.config[i].section, "endpoint"),
                        "https://" \o a \o ".") }

\* C5: in add and import every secret written to the vault was written by
\* a setPassword that follows, in the same invocation, a successful
\* list-buckets call with the same account id (endpoint), access key id and
\* secret, and no write follows a failed validation
C5_VaultWriteAfterValidation ==
  [][ cmd'.op \in {"add", "import"} =>
        /\ \A e \in vault' \ vault :
             \E i \in 1..Len(events') :
               /\ events'[i].type = "setPassword"
               /\ events'[i].service = e.service
               /\ events'[i].account = e.account
               /\ events'[i].password = e.password
        /\ \A i \in 1..Len(events') :
             events'[i].type = "setPassword" =>
               /\ WriteIsValidated(events', i)
               /\ \E a \in GivenAccounts(cmd') :
                    events'[i].service = "https://" \o a \o R2Suffix ]_vars

\* an import that stored two validated secrets
C5_Witness ==
  /\ cmd.op = "import"
  /\ Len(EventsOfType("setPassword")) = 2
  /\ Cardinality(vault) = 2
  /\ \A i \in 1..Len(events) :
       events[i].type = "setPassword" => WriteIsValidated(events, i)

AddedCredential(c) ==
  [account_id |-> c.account_id, access_key_id |-> c.access_key_id,
   secret_access_key |-> c.secret_access_key]

\* C6: when validation fails during add, the exit code is 1, the vault is
\* not written and the profile table is the one before the command
C6_FailedAddChangesNothing ==
  [][ (/\ cmd'.op = "add"
       /\ cmd'.touched
       /\ AddedCredential(cmd') \notin RemoteTokens) =>
        /\ exitCode' = 1
        /\ vault' = vault
        /\ registry' = registry ]_vars

\* a rejected add of a name that is already in a non-empty table
C6_Witness ==
  /\ cmd.op = "add"
  /\ cmd.touched
  /\ AddedCredential(cmd) \notin RemoteTokens
  /\ exitCode = 1
  /\ \E i \in 1..Len(events) : events[i].type = "listBuckets" /\ ~events[i].ok
  /\ HasKey(registry, cmd.name)
  /\ Lookup(registry, cmd.name).access_key_id # cmd.access_key_id

\* the sections of the import source that the import loop handles, with
\* the credential each is validated with
ImportedSections(c) ==
  LET matching == SelectSeq(c.in.config,
                            LAMBDA e : EndsWith(Get(e.section, "endpoint"),
                                                ".r2.cloudflarestorage.com"))
  IN  [i \in 1..Len(matching) |->
         [name |-> matching[i].name,
          account_id |-> accountForR2URL(matching[i].section.endpoint).val,
          access_key_id |-> matching[i].section.access_key_id,
          secret_access_key |-> matching[i].section.secret_access_key]]

CredentialOf(w) ==
  [account_id |-> w.account_id, access_key_id |-> w.access_key_id,
   secret_access_key |-> w.secret_access_key]

ImportRan(c) ==
  /\ c.op = "import"
  /\ c.touched
  /\ c.in.parsed
  /\ \A i \in 1..Len(c.in.config) : Get(c.in.config[i].section, "endpoint") # Undefined

\* C7: in a batch import where the validation of the k-th section fails,
\* every section validated before it is committed when the command ends:
\* its entry is in the registry and its secret in the vault
C7_PartialImportCommitted ==
  (ImportRan(cmd) /\ cmd.keytar = "Ok") =>
    LET sections == ImportedSections(cmd) IN
    \A k \in 1..Len(sections) :
      (/\ CredentialOf(sections[k]) \notin RemoteTokens
       /\ \A i \in 1..(k - 1) : CredentialOf(sections[i]) \in RemoteTokens) =>
        \A i \in 1..(k - 1) :
          /\ HasKey(registry, sections[i].name)
          /\ getPassword(vault, "https://" \o sections[i].account_id \o R2Suffix,
                         sections[i].access_key_id) = sections[i].secret_access_key

\* C8: after a successful import the profiles created are exactly the
\* sections whose endpoint ends with '.r2.cloudflarestorage.com', the other
\* entries are untouched, and the reported count is the number created
C8_ImportCreatesMatchingSections ==
  [][ (cmd'.op = "import" /\ exitCode' = 0) =>
        LET config == cmd'.in.config
            matching == { config[i].name :
                            i \in { j \in 1..Len(config) :
                                      EndsWith(config[j].section.endpoint,
                                               ".r2.cloudflarestorage.com") } }
            last == events'[Len(events')]
        IN  /\ KeysOf(registry') = KeysOf(registry) \cup matching
            /\ \A n \in KeysOf(registry) \ matching :
                 Lookup(registry', n) = Lookup(registry, n)
            /\ \A i \in 1..Len(config) :
                 config[i].name \in matching =>
                   Lookup(registry', config[i].name).access_key_id
                     = config[i].section.access_key_id
            /\ last.type = "info"
            /\ last.text = "Imported " \o ToString(Cardinality(matching))
                             \o " rclone configurations into " \o ConfigFilePath ]_vars

\* the scenario of two sections, one of them with a non-matching endpoint
C8_Witness ==
  /\ cmd.op = "import"
  /\ exitCode = 0
  /\ Len(cmd.in.config) = 2
  /\ \E i \in 1..2 : cmd.in.config[i].name = "mirror"
  /\ Len(registry) = 1
  /\ ~HasKey(registry, "mirror")
  /\ events[Len(events)].text
       = "Imported 1 rclone configurations into " \o ConfigFilePath

\* a host whose vault is available
ReadyHost == [os |-> "darwin", libsecret |-> FALSE, dist |-> "", installOk |-> FALSE]

\* the profiles the last, successful add or import wrote
WrittenProfiles(c) ==
  IF c.op = "add"
    THEN { [name |-> c.name, account_id |-> c.account_id,
            access_key_id |-> c.access_key_id,
            secret_access_key |-> c.secret_access_key] }
    ELSE { ImportedSections(c)[i] : i \in 1..Len(ImportedSections(c)) }

\* C9: after a successful add or import of profile P, retrieveConfig(P)
\* returns the account id, access key id and secret P was created with; the
\* entry of P has the key 'account' the resolver reads, and the vault is
\* read under the key the secret was stored under
C9_AddThenResolveRoundTrip ==
  (cmd.op \in {"add", "import"} /\ exitCode = 0) =>
    \A w \in WrittenProfiles(cmd) :
      LET resolved == retrieveConfig(registry, vault, ReadyHost, w.name, ConfigFilePath)
      IN  /\ "account" \in DOMAIN Lookup(registry, w.name)
          /\ resolved.status = "Ok"
          /\ resolved.val.account_id = w.account_id
          /\ resolved.val.access_key_id = w.access_key_id
          /\ resolved.val.secret_access_key = w.secret_access_key
          /\ \E i \in 1..Len(events) :
               /\ events[i].type = "setPassword"
               /\ resolved.events[1].service = events[i].service
               /\ resolved.events[1].account = events[i].account

NoSecretInTable(table) ==
  \A i \in 1..Len(table) :
    LET info == table[i].info IN
    /\ "secret_access_key" \notin DOMAIN info
    /\ \A f \in DOMAIN info : info[f] \notin Secrets
    /\ \/ DOMAIN info = {"account", "access_key_id"}
       \/ DOMAIN info = {"account_id", "access_key_id"}
    /\ info.access_key_id \in KeyIds
    /\ \A f \in DOMAIN info \ {"access_key_id"} : info[f] \in Accounts

\* C10: the registry file never holds a secret access key: every entry in
\* it, and in every content written to it, holds only an account identifier
\* and an access key id; the secrets stored are in the vault
C10_NoSecretInRegistry ==
  /\ NoSecretInTable(registry)
  /\ \A i \in 1..Len(events) :
       events[i].type = "writeTextFile" => NoSecretInTable(events[i].contents)
  /\ \A i \in 1..Len(events) :
       events[i].type = "setPassword" =>
         getPassword(vault, events[i].service, events[i].account) = events[i].password

\* a table written by both add and import, with the secrets in the vault
C10_Witness ==
  /\ Len(registry) = 2
  /\ \E i \in 1..2 : "account" \in DOMAIN registry[i].info
  /\ \E i \in 1..2 : "account_id" \in DOMAIN registry[i].info
  /\ Cardinality(vault) = 2
  /\ \E e \in vault : e.password \in Secrets
  /\ cmd.op = "import"
  /\ \E i \in 1..Len(events) : events[i].type = "writeTextFile"

(***************************************************************************)
(* Properties of the registry path                                         *)
(***************************************************************************)
\* C11: createInitialConfig is idempotent: a call that follows a call
\* returns what the first one returned, and no call changes the content of
\* a file that exists and is not empty
C11_EnsureExistsIdempotent ==
  [][cmd'.op = "createInitialConfig" =>
       /\ cmd.op = "createInitialConfig" => result' = result
       /\ \A p \in DOMAIN fs :
            fs[p].kind = "file" /\ fs[p].content # "" => fs'[p] = fs[p]]_vars

\* the candidates of the platform in their order: app-data then
\* ~/.config/<project>/<name> on Windows, XDG then ~/.config/<project>/<name>
\* elsewhere
PlatformCandidates ==
  LET paths == CandidatePaths("cloudflare", "r2.toml", env)
      first == IF env.platform = "win32" THEN paths.winAppDataPath
               ELSE paths.xdgConfigPath
  IN  SelectSeq(<<first, At(paths.homePaths, 0)>>, LAMBDA p : p # Undefined)

\* ~/.<name>
LastResort == At(CandidatePaths("cloudflare", "r2.toml", env).homePaths, 1)

\* the file p exists and can be written, or can be created in its directory
Touchable(f, p) ==
  \/ NodeAt(f, p).kind = "file" /\ NodeAt(f, p).writable
  \/ /\ NodeAt(f, p).kind = "absent"
     /\ NodeAt(f, dirname(p)).kind = "dir"
     /\ NodeAt(f, dirname(p)).writable

\* the parent directory of p exists and p can be touched, or the parent
\* directory can be created
CandidateWorks(f, p) ==
  \/ NodeAt(f, dirname(p)).kind = "dir" /\ Touchable(f, p)
  \/ /\ NodeAt(f, dirname(p)).kind = "absent"
     /\ NodeAt(f, dirname(dirname(p))).kind = "dir"
     /\ NodeAt(f, dirname(dirname(p))).writable

\* the first candidate that works, else ~/.<name> when it can be touched,
\* else Undefined
ExpectedPath(f) ==
  LET working == { i \in 1..Len(PlatformCandidates) :
                     CandidateWorks(f, PlatformCandidates[i]) }
  IN  IF working # {}
        THEN PlatformCandidates[CHOOSE i \in working : \A j \in working : i <= j]
      ELSE IF LastResort # Undefined /\ Touchable(f, LastResort) THEN LastResort
      ELSE Undefined

\* C12: createInitialConfig returns the first candidate of the platform
\* whose parent directory exists or was created and whose file was touched,
\* ~/.<name> when all of them fail and it can be touched, and the error
\* only when every candidate and ~/.<name> failed
C12_FirstWorkingCandidate ==
  [][cmd'.op = "createInitialConfig" =>
       IF ExpectedPath(fs) # Undefined
         THEN result'.status = "Ok" /\ result'.val = ExpectedPath(fs)
         ELSE result'.status = "Err" /\ result'.error = AllFailedError]_vars

\* both candidates failed, one of them at mkdir, and ~/.r2.toml was returned
C12_Witness ==
  /\ cmd.op = "createInitialConfig"
  /\ result.status = "Ok"
  /\ result.val = LastResort
  /\ Len(PlatformCandidates) = 2
  /\ Len(events) = 2
  /\ \E i \in 1..2 : events[i].text = "Trouble creating path"

(***************************************************************************)
(* Properties of presigning                                                *)
(***************************************************************************)
\* the last invocation was an s3 command with the presign flag that got a
\* credential
Presigned == cmd.op = "s3" /\ cmd.argv.presign /\ result.status = "Done"

\* the headers given to addHeaders by the last invocation
MergedHeaders == EventsOfType("addHeaders")[1].headers

EntriesOf(headers) == { <<headers[i].k, headers[i].v>> : i \in 1..Len(headers) }

\* the sign-header option as the list of its pairs
SignHeaderPairs ==
  IF cmd.argv.sign_header.typeof = "undefined" THEN <<>>
  ELSE IF cmd.argv.sign_header.typeof = "string" THEN <<cmd.argv.sign_header.str>>
  ELSE cmd.argv.sign_header.items

\* a pair key=value with one '=', its key and its value
IsKeyValue(kv) == Cardinality({ i \in 1..Len(kv) : CharAt(kv, i) = "=" }) = 1
PairKey(kv) == SubSeq(kv, 1, FirstIndex(kv, 1, {"="}) - 1)
PairValue(kv) == SubSeq(kv, FirstIndex(kv, 1, {"="}) + 1, Len(kv))

\* C13: the merged headers are the caller's headers overridden by the
\* sign-header pairs in order: a key has the value of the last pair with
\* that key, and the caller's value when no pair has it; {A: 1} with
\* ["A=2", "B=3"] gives {A: 2, B: 3}
C13_SignHeadersOverride ==
  (Presigned /\ \A i \in 1..Len(SignHeaderPairs) : IsKeyValue(SignHeaderPairs[i])) =>
    LET pairs == SignHeaderPairs
        withKey(k) == { i \in 1..Len(pairs) : PairKey(pairs[i]) = k }
        last(k) == CHOOSE i \in withKey(k) : \A j \in withKey(k) : j <= i
        expected ==
          { <<PairKey(pairs[i]), PairValue(pairs[last(PairKey(pairs[i]))])>> :
              i \in 1..Len(pairs) }
            \cup { e \in EntriesOf(cmd.headers) : withKey(e[1]) = {} }
    IN  /\ EntriesOf(MergedHeaders) = expected
        /\ Len(MergedHeaders) = Cardinality(expected)
        /\ (cmd.headers = <<[k |-> "A", v |-> "1"]>> /\ pairs = <<"A=2", "B=3">>)
             => EntriesOf(MergedHeaders) = {<<"A", "2">>, <<"B", "3">>}

\* a later pair overrode the caller's header and an earlier pair
C13_Witness ==
  /\ Presigned
  /\ cmd.headers = <<[k |-> "A", v |-> "1"]>>
  /\ SignHeaderPairs = <<"B=3", "A=2", "B=4">>
  /\ EntriesOf(MergedHeaders) = {<<"A", "2">>, <<"B", "4">>}

\* the method of the printed command line
PrintedMethod == EventsOfType("stdout")[1].curlArgs[3]

\* C14: for every command the printed method is GET for a Put or Create
\* command, DELETE for a Delete command, HEAD for a Head command and GET
\* for every other command
C14_PresignMethod ==
  Presigned =>
    LET name == cmd.command.name
    IN  PrintedMethod =
          IF StartsWith(name, "Put") \/ StartsWith(name, "Create") THEN "GET"
          ELSE IF StartsWith(name, "Delete") THEN "DELETE"
          ELSE IF StartsWith(name, "Head") THEN "HEAD"
          ELSE "GET"

C14_Witness ==
  Presigned /\ cmd.command.name = "PutObjectCommand" /\ PrintedMethod = "GET"

\* events of sending, of the overwrite prompt and of the destination
ExecutingEvents(evs) ==
  SelectSeq(evs, LAMBDA e : e.type \in {"debug", "send", "accessSync", "open",
                                        "start", "increment", "write", "stop"}
                              \/ (e.type = "prompt" /\ e.name = "overwrite"))

\* C15: with the presign flag the invocation resolves, presigns and is
\* done: nothing is sent, no overwrite prompt is shown, no destination is
\* opened or written
C15_PresignNeverExecutes ==
  [][(cmd'.op = "s3" /\ cmd'.argv.presign) =>
       /\ ExecutingEvents(events') = <<>>
       /\ fs' = fs
       /\ result'.status # "Pending"
       /\ \A i \in 1..Len(events') :
            (events'[i].type = "resolved" /\ events'[i].status = "Ok") =>
              /\ result'.status = "Done"
              /\ [j \in 1..(Len(events') - i) |-> events'[i + j].type]
                   = <<"addHeaders", "getSignedUrl", "info", "stdout">>]_vars

\* a presigned get-object of a.txt, which is there, with a response to
\* save had the command been sent
C15_Witness ==
  /\ Presigned
  /\ cmd.argv.object = "a.txt"
  /\ cmd.world.send.kind = "ok"
  /\ NodeAt(fs, "a.txt").kind = "file"

\* the seconds offset the caller gave, 86400 when none
SecondsOffset ==
  IF cmd.argv.expires_in.typeof = "undefined" THEN 86400 ELSE cmd.argv.expires_in.num

\* C16: the signable headers are the keys of the merged headers, the
\* printed command line has -H 'k: v' for exactly the merged headers, and
\* the announced expiry is the signing timestamp plus the seconds offset
C16_SignedHeadersAndExpiry ==
  Presigned =>
    LET options == EventsOfType("getSignedUrl")[1].options
        curlArgs == EventsOfType("stdout")[1].curlArgs
        sent == { i \in 1..Len(curlArgs) : curlArgs[i] = "-H" }
    IN  /\ options.signableHeaders = { e[1] : e \in EntriesOf(MergedHeaders) }
        /\ { curlArgs[i + 1] : i \in sent }
             = { "'" \o e[1] \o ": " \o ToStr(e[2]) \o "'" : e \in EntriesOf(MergedHeaders) }
        /\ Cardinality(sent) = Len(MergedHeaders)
        /\ Len(curlArgs) = 4 + 2 * Len(MergedHeaders)
        /\ options.signingDate = cmd.world.now
        /\ EventsOfType("info")[1].text
             = "URL expires " \o ToString((options.signingDate \div 1000) + SecondsOffset)

\* sign-header added a header to the caller's and no expiry was given
C16_Witness ==
  /\ Presigned
  /\ cmd.argv.expires_in.typeof = "undefined"
  /\ cmd.headers # <<>>
  /\ Len(MergedHeaders) = 2
  /\ cmd.world.now = 5999
  /\ EventsOfType("info")[1].text = "URL expires 86405"

(***************************************************************************)
(* Properties of executing                                                 *)
(***************************************************************************)
\* the resolution of the last invocation succeeded
ResolvedOk(evs) == \E i \in 1..Len(evs) : evs[i] = [type |-> "resolved", status |-> "Ok"]

\* C17: the credential is resolved before anything is signed or sent, and
\* when the resolution fails the invocation fails with exit code 1 and
\* signs nothing, sends nothing, shows no overwrite prompt and writes no
\* destination
C17_ResolveFirst ==
  [][cmd'.op = "s3" =>
       /\ \A j \in 1..Len(events') :
            events'[j].type \in {"addHeaders", "getSignedUrl", "debug", "send"} =>
              \E i \in 1..(j - 1) :
                /\ events'[i] = [type |-> "resolved", status |-> "Ok"]
                /\ \A l \in (i + 1)..Len(events') : events'[l].type # "getPassword"
       /\ ~ResolvedOk(events') =>
            /\ result'.status \in {"Failed", "Threw"}
            /\ exitCode' = 1
            /\ ExecutingEvents(events') = <<>>
            /\ \A j \in 1..Len(events') :
                 events'[j].type \notin {"addHeaders", "getSignedUrl", "stdout"}
            /\ fs' = fs]_vars

\* the resolution returned an error to a command that would have got a
\* body to save
C17_Witness ==
  /\ cmd.op = "s3"
  /\ ~cmd.argv.presign
  /\ cmd.world.send.kind = "ok"
  /\ result.status = "Failed"
  /\ exitCode = 1
  /\ events[Len(events)] = [type |-> "resolved", status |-> "Err"]

\* the last invocation sent its command and the send failed, with a status
\* or with a network error without one
SendFailed(c) ==
  /\ c.op = "s3"
  /\ ~c.argv.presign
  /\ c.world.send.kind = "error"
  /\ c.world.send.hasMetadata

\* C18: when the send fails the failure is reported, the exit code is 1,
\* the invocation has failed, the command was sent once, and no overwrite
\* prompt, stream or destination write follows
C18_SendFailureIsFinal ==
  [][(SendFailed(cmd') /\ ResolvedOk(events')) =>
       /\ result'.status = "Failed"
       /\ exitCode' = 1
       /\ events'[Len(events')].type = "error"
       /\ Len(SelectSeq(events', LAMBDA e : e.type = "send")) = 1
       /\ SelectSeq(ExecutingEvents(events'), LAMBDA e : e.type \notin {"debug", "send"}) = <<>>
       /\ fs' = fs]_vars

\* a network error without a status, for a get-object whose destination is
\* there
C18_Witness ==
  /\ SendFailed(cmd)
  /\ ResolvedOk(events)
  /\ cmd.world.send.httpStatusCode = JsUndefined
  /\ cmd.argv.object = "a.txt"
  /\ NodeAt(fs, "a.txt").kind = "file"
  /\ exitCode = 1

\* the overwrite prompt was shown and declined
Declined(evs) ==
  \E i \in 1..Len(evs) :
    evs[i].type = "prompt" /\ evs[i].name = "overwrite" /\ ~evs[i].answer

\* C19: when the destination exists and the overwrite is declined the exit
\* code is 0, the destination keeps its content and is never opened; and
\* whenever a destination that exists is opened the prompt came before
C19_DeclinedOverwrite ==
  [][cmd'.op = "s3" =>
       /\ Declined(events') =>
            /\ exitCode' = 0
            /\ fs' = fs
            /\ \A j \in 1..Len(events') : events'[j].type \notin {"open", "write"}
       /\ \A j \in 1..Len(events') :
            (events'[j].type = "open" /\ NodeAt(fs, events'[j].path).kind # "absent") =>
              \E i \in 1..(j - 1) :
                events'[i].type = "prompt" /\ events'[i].name = "overwrite"]_vars

\* a.txt was there, the prompt was declined, a.txt is as it was
C19_Witness ==
  /\ cmd.op = "s3"
  /\ Declined(events)
  /\ NodeAt(fs, "a.txt") = File("old", TRUE)
  /\ exitCode = 0
  /\ result.status = "Done"

(***************************************************************************)
(* Properties of saving the registry                                       *)
(***************************************************************************)
\* the profile names the add or import c writes
WrittenNames(c) ==
  IF c.op = "add" THEN {c.name}
  ELSE { c.in.config[i].name : i \in { j \in 1..Len(c.in.config) :
           EndsWith(Get(c.in.config[j].section, "endpoint"), ".r2.cloudflarestorage.com") } }

\* C20: an add or import leaves every entry of the registry other than the
\* profiles it writes as it was, and creates or replaces entries of those
\* profile names only
C20_OtherEntriesKept ==
  [][cmd'.op \in {"add", "import"} =>
       /\ \A name \in KeysOf(registry) \ WrittenNames(cmd') :
            HasKey(registry', name) /\ Lookup(registry', name) = Lookup(registry, name)
       /\ \A name \in KeysOf(registry') \ WrittenNames(cmd') :
            HasKey(registry, name)]_vars

\* home was added to a registry that has the profile work of an import
C20_Witness ==
  /\ cmd.op = "add"
  /\ cmd.name = "home"
  /\ \E i \in 1..Len(events) : events[i].type = "writeTextFile"
  /\ Len(registry) = 2
  /\ registry[1].name = "work"
  /\ "account_id" \in DOMAIN registry[1].info
  /\ registry[2].name = "home"

(***************************************************************************)
(* Properties of the vault capability                                      *)
(***************************************************************************)
\* the entries of the table whose secret is not in the vault v under the
\* endpoint of their account and their access key id
WithoutSecret(table, v) ==
  { i \in 1..Len(table) :
      LET info == table[i].info
          account_id == IF "account" \in DOMAIN info THEN info.account
                        ELSE Get(info, "account_id")
      IN  getPassword(v, Endpoint(account_id), Get(info, "access_key_id")) = Null }

\* C21: when loadKeytar gives its error to an add or import, the command
\* ends with exit code 1 and the registry is the one before it; and every
\* entry an add or import writes has its secret in the vault
C21_VaultUnavailableIsFatal ==
  [][cmd'.op \in {"add", "import"} =>
       /\ cmd'.keytar = "Err" => exitCode' = 1 /\ registry' = registry
       /\ \A i \in 1..Len(registry') :
            (i > Len(registry) \/ registry'[i] # registry[i]) =>
              i \notin WithoutSecret(registry', vault')]_vars

(***************************************************************************)
(* Properties of profile names that are account ids                        *)
(***************************************************************************)
\* the last invocation was retrieveConfig with the name of a profile
ByName ==
  /\ cmd.op = "retrieveConfig"
  /\ cmd.touched
  /\ HasKey(registry, cmd.accountOrProfile)

\* the secret in the vault of the profile of that name
NamedSecret ==
  LET info == Lookup(registry, cmd.accountOrProfile)
  IN  getPassword(vault, Endpoint(Get(info, "account")), Get(info, "access_key_id"))

\* C22: when the identifier is a profile name, the credential or the
\* failure is that of the profile of that name, and the profiles whose
\* account id is the identifier are not looked at, even when there is one
C22_ProfileNameFirst ==
  ByName =>
    LET info == Lookup(registry, cmd.accountOrProfile)
        reads == EventsOfType("getPassword")
    IN  /\ (cmd.keytar = "Ok" /\ NamedSecret # Null) =>
              /\ result.status = "Ok"
              /\ result.val = [profile |-> cmd.accountOrProfile,
                               account_id |-> Get(info, "account"),
                               access_key_id |-> Get(info, "access_key_id"),
                               secret_access_key |-> NamedSecret]
        /\ (cmd.keytar = "Ok" /\ NamedSecret = Null) =>
              result.status = "Err" /\ result.error = NoCredentialsError
        /\ cmd.keytar = "Err" => result.status = "Err" /\ result.error = KeytarError
        /\ EventsOfType("warn") = <<>>
        /\ Len(reads) <= 1
        /\ \A i \in 1..Len(reads) :
             /\ reads[i].service = Endpoint(Get(info, "account"))
             /\ reads[i].account = Get(info, "access_key_id")

\* the profile acme is of another account, the profile work is of the
\* account acme and its secret is in the vault; acme was resolved by name
C22_Witness ==
  /\ ByName
  /\ cmd.accountOrProfile = "acme"
  /\ result.status = "Ok"
  /\ result.val.account_id = HexAccount
  /\ \E i \in 1..Len(registry) :
       /\ registry[i].name = "work"
       /\ registry[i].info.account = "acme"
       /\ registry[i].info.access_key_id # result.val.access_key_id
       /\ getPassword(vault, Endpoint("acme"), registry[i].info.access_key_id) # Null

(***************************************************************************)
(* Properties of the destination of a body                                 *)
(***************************************************************************)
\* the invocation c got a response with a body
GotBody(c, evs) ==
  /\ c.op = "s3"
  /\ ~c.argv.presign
  /\ ResolvedOk(evs)
  /\ c.world.send.kind = "ok"
  /\ c.world.send.Body.typeof # "undefined"

\* the text of key after its last '/'
TrailingSegment(key) == SubSeq(key, LastIndexOf(key, "/") + 1, Len(key))

\* the events of evs that name a path: the access check, the open, the writes
PathEvents(evs) ==
  SelectSeq(evs, LAMBDA e : e.type \in {"accessSync", "open", "write"})

\* C23: for a response with a body, a destination that was given is the
\* one used; with none given it is the trailing path segment of the object
\* key; with none given and no object key the handler returns with exit
\* code 0, nothing opened and nothing written
C23_DestinationSelection ==
  [][GotBody(cmd', events') =>
       LET given == cmd'.argv.save_body_to
           object == cmd'.argv.object
           used == PathEvents(events')
       IN  /\ given # Undefined =>
                /\ used # <<>>
                /\ \A i \in 1..Len(used) : used[i].path = given
           /\ (given = Undefined /\ object # Undefined) =>
                /\ used # <<>>
                /\ \A i \in 1..Len(used) : used[i].path = TrailingSegment(object)
           /\ (given = Undefined /\ object = Undefined) =>
                /\ used = <<>>
                /\ fs' = fs
                /\ exitCode' = 0
                /\ result'.status = "Done"]_vars

\* the body of dir/a.txt was written to a.txt
C23_Witness ==
  /\ GotBody(cmd, events)
  /\ cmd.argv.save_body_to = Undefined
  /\ cmd.argv.object = "dir/a.txt"
  /\ \E i \in 1..Len(events) : events[i].type = "write" /\ events[i].path = "a.txt"
  /\ NodeAt(fs, "a.txt").kind = "file"
  /\ NodeAt(fs, "a.txt").content = "abc"

(***************************************************************************)
(* Properties of the transfer                                              *)
(***************************************************************************)
\* a transfer without a progress bar whose body has ended and whose output
\* has finished, or is the standard output with every chunk written
PipeEnded ==
  /\ cmd.op = "stream"
  /\ ~result.bar
  /\ result.bodyEnd
  /\ cmd.save_body_to = "-" \/ "finish" \in result.emitted

\* C24: a transfer without a progress bar terminates: once the body has
\* signalled end and the output has finished the handler reaches Done
C24_PipeTerminates == PipeEnded ~> (result.status = "Done")

\* the increments of the progress bar among the events evs
Increments(evs) == SelectSeq(evs, LAMBDA e : e.type = "increment")

\* the cumulative byte count of the progress bar after the increments incs
RECURSIVE BarValue(_, _)
BarValue(incs, i) == IF i > Len(incs) THEN 0 ELSE incs[i].by + BarValue(incs, i + 1)

\* two exact quotients are the same number
SameQuotient(a, b) == a.num * b.den = b.num * a.den

\* C25: in a known-length transfer every chunk raises the cumulative byte
\* count of the progress bar by its length, so that after the last chunk it
\* is the sum of the chunk lengths, and the throughput reported with the
\* chunk is its bytes divided by the seconds since the chunk before it, or
\* since the start of the transfer for the first chunk
C25_ProgressPerChunk ==
  [][(cmd.op = "stream" /\ result.status = "Streaming" /\ result.bar
        /\ result'.sent = result.sent + 1) =>
       LET chunk == cmd.chunks[result'.sent]
           before == Increments(events)
           after == Increments(events')
           previous == IF before = <<>> THEN result.measurementStart
                       ELSE before[Len(before)].at
       IN  /\ BarValue(after, 1) = BarValue(before, 1) + Len(chunk)
           /\ result'.sent = Len(cmd.chunks) =>
                BarValue(after, 1) = ByteLength(cmd.chunks, 1)
           /\ SameQuotient(after[Len(after)].speed,
                           Divide(Len(chunk) * MsPerSecond, result'.now - previous))]_vars

(***************************************************************************)
(* Properties of the verbose flag                                          *)
(***************************************************************************)
\* the events evs without the request log of the verbose flag
NotLogged(evs) == SelectSeq(evs, LAMBDA e : e.type # "debug")

\* C26: an invocation and the one that differs from it in the verbose flag
\* only send the same request, end in the same state with the same exit
\* code and write the same bytes to the same destination; only the request
\* log differs
C26_VerboseObservesOnly ==
  [][cmd'.op = "s3" =>
       LET other == handleS3Cmd(registry, vault, fs,
                                [cmd'.argv EXCEPT !.verbose = ~@],
                                cmd'.command, cmd'.headers, cmd'.world)
       IN  /\ other.status = result'.status
           /\ other.exitCode = exitCode'
           /\ other.fs = fs'
           /\ NotLogged(other.events) = NotLogged(events')]_vars

\* a verbose invocation logged its request, sent it and wrote the body
C26_Witness ==
  /\ cmd.op = "s3"
  /\ cmd.argv.verbose
  /\ \E i \in 1..Len(events) : events[i].type = "debug"
  /\ \E i \in 1..Len(events) : events[i].type = "send"
  /\ \E i \in 1..Len(events) : events[i].type = "write" /\ events[i].path = "a.txt"
  /\ NodeAt(fs, "a.txt").kind = "file"
  /\ NodeAt(fs, "a.txt").content = "abc"
  /\ result.status = "Done"

(***************************************************************************)
(* Properties of the headers of a request that is sent                     *)
(***************************************************************************)
\* the caller's headers merged with the sign-header pairs: a key has the
\* text after the first '=' of the last pair with that key
ExpectedMerge ==
  LET pairs == SignHeaderPairs
      withKey(k) == { i \in 1..Len(pairs) : PairKey(pairs[i]) = k }
      last(k) == CHOOSE i \in withKey(k) : \A j \in withKey(k) : j <= i
  IN  { <<PairKey(pairs[i]), PairValue(pairs[last(PairKey(pairs[i]))])>> :
          i \in 1..Len(pairs) }
        \cup { e \in EntriesOf(cmd.headers) : withKey(e[1]) = {} }

\* every sign-header pair has an '='
AllKeyValue ==
  \A i \in 1..Len(SignHeaderPairs) :
    \E j \in 1..Len(SignHeaderPairs[i]) : CharAt(SignHeaderPairs[i], j) = "="

\* C27: every request that is sent carries every header of the caller's
\* headers merged with the sign-header pairs
C27_SentWithMergedHeaders ==
  (cmd.op = "s3" /\ ~cmd.argv.presign /\ AllKeyValue) =>
    \A i \in 1..Len(events) :
      events[i].type = "send" => ExpectedMerge \subseteq EntriesOf(events[i].headers)

\* C29: the merged headers of a presign map the key of every sign-header
\* pair to the whole text after its first '=', also when that text has an
\* '=' in it, and the printed command line has those values
C29_WholeValueSigned ==
  (Presigned /\ AllKeyValue) =>
    /\ EntriesOf(MergedHeaders) = ExpectedMerge
    /\ \A e \in ExpectedMerge :
         \E i \in 1..Len(EventsOfType("stdout")[1].curlArgs) :
           EventsOfType("stdout")[1].curlArgs[i] = "'" \o e[1] \o ": " \o e[2] \o "'"

(***************************************************************************)
(* Properties of loading the vault                                         *)
(***************************************************************************)
\* the distributions loadKeytar has an install command for
KnownFamilies == { "Arch Linux", "Ubuntu", "Debian GNU/Linux", "Fedora" }

\* C28: loading the vault gives the failure 'libsecret required and not
\* available', and does not throw, on a Linux host without the library
\* whose distribution is not a known one and on one whose install command
\* fails; on a host that is not Linux, and on a Linux host with the
\* library, the vault is loaded and no install command is run
C28_PlatformReady ==
  cmd.op = "retrieveCreds" =>
    LET h == cmd.h
        missing == h.os = "linux" /\ ~h.libsecret
    IN  /\ (missing /\ h.dist \notin KnownFamilies) =>
             result.status = "Err" /\ result.error = KeytarError
        /\ (missing /\ h.dist \in KnownFamilies /\ ~h.installOk) =>
             result.status = "Err" /\ result.error = KeytarError
        /\ ~missing =>
             /\ EventsOfType("execFileSync") = <<>>
             /\ result.status = "Ok"
                  \/ (result.status = "Err" /\ result.error = NoCredentialsError)

(***************************************************************************)
(* Properties of the path that is opened                                   *)
(***************************************************************************)
\* C30: the path opened for writing is never the empty string: with no
\* destination given and an object key that ends with '/' the handler
\* returns with nothing opened and nothing written
C30_NeverOpensEmptyPath ==
  cmd.op = "s3" =>
    /\ \A i \in 1..Len(events) : events[i].type = "open" => events[i].path # ""
    /\ (GotBody(cmd, events) /\ cmd.argv.save_body_to = Undefined
          /\ cmd.argv.object # Undefined /\ EndsWith(cmd.argv.object, "/")) =>
         /\ \A i \in 1..Len(events) : events[i].type \notin {"open", "write"}
         /\ result.status = "Done"
====
